---- MODULE Spec2Model ----
(***************************************************************************)
(* Model of the agentic execution core: trigger matching, admission under  *)
(* the per-(session, flow) Redis lock, the step scheduler and the step     *)
(* processor (src/core/src/flow_engine.rs, matcher.rs, processors.rs).     *)
(*                                                                         *)
(* Time is the wall clock in milliseconds.  Strings that the code inspects *)
(* character by character (message content, trigger keywords) are          *)
(* sequences of one-character strings.  An SQL NULL / Rust None is the     *)
(* empty sequence for optional text and -1 for optional numbers.           *)
(***************************************************************************)
EXTENDS Integers, Sequences, FiniteSets, TLC

VARIABLES
    flowCfg,     \* "Flow" table: per flow cooldownMs, usageLimit, excludesFlows
    now,         \* wall clock, ms
    lock,        \* Redis: lock key <<sessionId, flowId>> -> expiry time, -1 when absent
    tasks,       \* spawned process_incoming_message tasks, in spawn order
    executions,  \* "Execution" table; a row's id is its index
    jobs,        \* spawned scheduler tasks (sleeping timers and their continuations)
    outbound,    \* stream agentic:queue:outgoing
    boots,       \* process starts after the first one (crash, then restart)
    call,        \* the last call of a function examined on its own: name,
                 \* arguments and returned value (NoCall when there is none)
    ingress      \* stream agentic:queue:incoming as the group agentic_core_group
                 \* sees it: entries not yet delivered, the reply the reader loop
                 \* is going through, the group's pending entries, the next id

vars == <<flowCfg, now, lock, tasks, executions, jobs, outbound, boots, call, ingress>>

(***************************************************************************)
(* Bounds and program constants                                            *)
(***************************************************************************)
MaxEvents == 2
MaxTicks == 2
MaxRestarts == 1
MaxFollowedEvents == 1

LOCK_TTL_SECS == 30

\* One clock tick is half the lock TTL, in ms.
TickMs == LOCK_TTL_SECS * 500
LockTtlMs == LOCK_TTL_SECS * 1000

(***************************************************************************)
(* Database content read by the core (it does not write these tables)      *)
(***************************************************************************)
Flows == {"F1", "F2", "F3"}
Sessions == {"s1", "s2"}

SessionTable ==
    [s \in Sessions |->
        IF s = "s1"
        THEN [platform |-> "WHATSAPP", identifier |-> "u1@wa", botId |-> "b1"]
        ELSE [platform |-> "TELEGRAM", identifier |-> "u2@tg", botId |-> "b1"]]

\* Rows of "Trigger" in the (stable) order the store returns them.
TriggerTable ==
    << [id |-> "t1", botId |-> "b1", sessionId |-> "NULL", keyword |-> <<"h">>,
        matchType |-> "CONTAINS", isActive |-> TRUE, flowId |-> "F2", scope |-> "BOTH"],
       [id |-> "t2", botId |-> "b1", sessionId |-> "NULL", keyword |-> <<"H", "i">>,
        matchType |-> "EXACT", isActive |-> TRUE, flowId |-> "F1", scope |-> "INCOMING"],
       [id |-> "t3", botId |-> "b1", sessionId |-> "NULL", keyword |-> <<"h", "i">>,
        matchType |-> "EXACT", isActive |-> FALSE, flowId |-> "F2", scope |-> "BOTH"],
       [id |-> "t4", botId |-> "b1", sessionId |-> "NULL", keyword |-> <<"o">>,
        matchType |-> "REGEX", isActive |-> TRUE, flowId |-> "F1", scope |-> "BOTH"],
       [id |-> "t5", botId |-> "b2", sessionId |-> "NULL", keyword |-> <<"o">>,
        matchType |-> "CONTAINS", isActive |-> TRUE, flowId |-> "F1", scope |-> "BOTH"],
       [id |-> "t6", botId |-> "b1", sessionId |-> "s2", keyword |-> <<"o", "h">>,
        matchType |-> "EXACT", isActive |-> TRUE, flowId |-> "F1", scope |-> "OUTGOING"],
       [id |-> "t7", botId |-> "b1", sessionId |-> "NULL", keyword |-> <<"y", "o">>,
        matchType |-> "EXACT", isActive |-> TRUE, flowId |-> "F3", scope |-> "INCOMING"] >>

\* Rows of "Step".  F1 has orders 0, 1 and 2, the last a media step without
\* a mediaUrl; F2 has a gap at order 1; F3 has no step.
StepTable ==
    << [id |-> "a0", flowId |-> "F1", type |-> "TEXT", content |-> <<"hello">>,
        mediaUrl |-> <<>>, delayMs |-> 0, jitterPct |-> 0, metadata |-> <<>>, order |-> 0],
       [id |-> "a1", flowId |-> "F1", type |-> "IMAGE", content |-> <<"pic">>,
        mediaUrl |-> <<"http://m/1.png">>, delayMs |-> TickMs, jitterPct |-> 0, metadata |-> <<>>, order |-> 1],
       [id |-> "a2", flowId |-> "F1", type |-> "AUDIO", content |-> <<>>,
        mediaUrl |-> <<>>, delayMs |-> 0, jitterPct |-> 0, metadata |-> <<>>, order |-> 2],
       [id |-> "b0", flowId |-> "F2", type |-> "PTT", content |-> <<>>,
        mediaUrl |-> <<"http://m/2.ogg">>, delayMs |-> 0, jitterPct |-> 0, metadata |-> <<>>, order |-> 0],
       [id |-> "b2", flowId |-> "F2", type |-> "TEXT", content |-> <<"late">>,
        mediaUrl |-> <<>>, delayMs |-> 0, jitterPct |-> 0, metadata |-> <<>>, order |-> 2] >>

\* Message texts the ingress delivers.
Contents ==
    { <<" ", " ">>,
      <<" ", "H", "I">>,
      <<"o", "h">>,
      <<"y", "o">> }

(***************************************************************************)
(* matcher.rs                                                              *)
(***************************************************************************)
IsWhitespace(c) == c \in {" ", "\t", "\n"}

LowerChar(c) ==
    CASE c = "H" -> "h"
      [] c = "I" -> "i"
      [] c = "O" -> "o"
      [] OTHER -> c

to_lowercase(s) == [i \in 1..Len(s) |-> LowerChar(s[i])]

RECURSIVE trim_start(_)
trim_start(s) ==
    IF s # <<>> /\ IsWhitespace(Head(s)) THEN trim_start(Tail(s)) ELSE s

RECURSIVE trim_end(_)
trim_end(s) ==
    IF s # <<>> /\ IsWhitespace(s[Len(s)])
    THEN trim_end(SubSeq(s, 1, Len(s) - 1))
    ELSE s

trim(s) == trim_end(trim_start(s))

\* str::contains: needle occurs as a contiguous substring of hay.
contains(hay, needle) ==
    \E i \in 0..(Len(hay) - Len(needle)) : SubSeq(hay, i + 1, i + Len(needle)) = needle

\* Faulty variant: the normalized content is not tested for emptiness.
find_match_NoEmptyCheck(content, triggers) ==
    LET normalized == to_lowercase(trim(content))
        IsExact(t) == t.matchType = "EXACT" /\ to_lowercase(t.keyword) = normalized
        IsContains(t) == t.matchType = "CONTAINS"
                         /\ contains(normalized, to_lowercase(t.keyword))
        exact == SelectSeq(triggers, IsExact)
        cont == SelectSeq(triggers, IsContains)
    IN  IF exact # <<>> THEN <<Head(exact)>>
        ELSE IF cont # <<>> THEN <<Head(cont)>>
        ELSE <<>>

\* Faulty variant: the CONTAINS pass runs before the EXACT pass.
find_match_ContainsFirst(content, triggers) ==
    LET normalized == to_lowercase(trim(content))
        IsExact(t) == t.matchType = "EXACT" /\ to_lowercase(t.keyword) = normalized
        IsContains(t) == t.matchType = "CONTAINS"
                         /\ contains(normalized, to_lowercase(t.keyword))
        exact == SelectSeq(triggers, IsExact)
        cont == SelectSeq(triggers, IsContains)
    IN  IF normalized = <<>> THEN <<>>
        ELSE IF cont # <<>> THEN <<Head(cont)>>
        ELSE IF exact # <<>> THEN <<Head(exact)>>
        ELSE <<>>

\* Faulty variant: an EXACT keyword matches content that contains it.
find_match_LooseExact(content, triggers) ==
    LET normalized == to_lowercase(trim(content))
        IsExact(t) == t.matchType = "EXACT"
                      /\ contains(normalized, to_lowercase(t.keyword))
        IsContains(t) == t.matchType = "CONTAINS"
                         /\ contains(normalized, to_lowercase(t.keyword))
        exact == SelectSeq(triggers, IsExact)
        cont == SelectSeq(triggers, IsContains)
    IN  IF normalized = <<>> THEN <<>>
        ELSE IF exact # <<>> THEN <<Head(exact)>>
        ELSE IF cont # <<>> THEN <<Head(cont)>>
        ELSE <<>>

\* Option<MatchResult> as a sequence of length 0 or 1.
find_match(content, triggers) ==
    LET normalized == to_lowercase(trim(content))
        IsExact(t) == t.matchType = "EXACT" /\ to_lowercase(t.keyword) = normalized
        IsContains(t) == t.matchType = "CONTAINS"
                         /\ contains(normalized, to_lowercase(t.keyword))
        exact == SelectSeq(triggers, IsExact)
        cont == SelectSeq(triggers, IsContains)
    IN  IF normalized = <<>> THEN <<>>
        ELSE IF exact # <<>> THEN <<Head(exact)>>
        ELSE IF cont # <<>> THEN <<Head(cont)>>
        ELSE <<>>

(***************************************************************************)
(* flow_engine.rs: process_incoming_message                                *)
(***************************************************************************)
\* Faulty variant: the direction of the event is not looked at.
valid_scopes_Any(from_me) == {"INCOMING", "OUTGOING", "BOTH"}

valid_scopes(from_me) == IF from_me THEN {"OUTGOING", "BOTH"} ELSE {"INCOMING", "BOTH"}

\* The trigger query: active, scope-appropriate triggers of the session or
\* of the bot, with the owning flow's fields joined.
FetchActiveTriggers(bot_id, session_id, from_me) ==
    LET Pass(t) == /\ t.isActive
                   /\ t.scope \in valid_scopes(from_me)
                   /\ \/ t.sessionId = session_id
                      \/ (t.botId = bot_id /\ t.sessionId = "NULL")
        sel == SelectSeq(TriggerTable, Pass)
    IN  [i \in 1..Len(sel) |->
            [id |-> sel[i].id, keyword |-> sel[i].keyword, matchType |-> sel[i].matchType,
             flowId |-> sel[i].flowId,
             cooldownMs |-> flowCfg[sel[i].flowId].cooldownMs,
             usageLimit |-> flowCfg[sel[i].flowId].usageLimit,
             excludesFlows |-> flowCfg[sel[i].flowId].excludesFlows]]

lock_key(session_id, flow_id) == <<session_id, flow_id>>
LockKeys == Sessions \X Flows

\* The key exists in Redis (expired keys are removed by Tick).
KeyPresent(k) == lock[k] # -1

RowsOf(session_id, flow_ids) ==
    {i \in 1..Len(executions) :
        executions[i].sessionId = session_id /\ executions[i].flowId \in flow_ids}

\* SELECT "startedAt" ... ORDER BY "startedAt" DESC LIMIT 1  (-1: no row)
LastStartedAt(session_id, flow_id) ==
    LET rows == RowsOf(session_id, {flow_id})
    IN  IF rows = {} THEN -1
        ELSE LET i == CHOOSE i \in rows :
                        \A j \in rows : executions[j].startedAt <= executions[i].startedAt
             IN  executions[i].startedAt

\* SELECT COUNT(*) ... WHERE "sessionId" = $1 AND "flowId" = $2
CountExecutions(session_id, flow_id) == Cardinality(RowsOf(session_id, {flow_id}))

\* Faulty variant: only RUNNING executions of the excluded flows count.
CountConflicts_RunningOnly(session_id, excludes_flows) ==
    Cardinality({i \in RowsOf(session_id, excludes_flows) : executions[i].status = "RUNNING"})

\* SELECT COUNT(*) ... WHERE "sessionId" = $1 AND "flowId" = ANY($2)
CountConflicts(session_id, excludes_flows) == Cardinality(RowsOf(session_id, excludes_flows))

CooldownRejects(cooldown_ms, started_at) ==
    cooldown_ms > 0 /\ started_at # -1 /\ (now - started_at) < cooldown_ms

\* Faulty variant: count > usage_limit.
UsageRejects_Gt(usage_limit, count) == usage_limit > 0 /\ count > usage_limit

UsageRejects(usage_limit, count) == usage_limit > 0 /\ count >= usage_limit

ExclusionRejects(excludes_flows, conflict_count) ==
    excludes_flows # {} /\ conflict_count > 0

NewTask(session_id, content, from_me, m, others) ==
    [session |-> session_id, content |-> content, fromMe |-> from_me,
     trigger |-> m,
     pc |-> IF m = <<>> THEN "done" ELSE "lock",
     acquired |-> FALSE, released |-> FALSE, scheduled |-> FALSE,
     txStart |-> -1, passed |-> {}, msg |-> <<>>, execId |-> 0, result |-> "none",
     overlap |-> others]

InFlight == {t \in 1..Len(tasks) : tasks[t].pc \notin {"done", "panicked", "crashed"}}

\* Ingress spawns the task; it runs to its first Redis call: the empty-content
\* return, the trigger query and find_match.
SpawnIncoming(session_id, content, from_me) ==
    /\ Len(tasks) < MaxEvents
    /\ LET triggers == FetchActiveTriggers(SessionTable[session_id].botId, session_id, from_me)
           m == IF trim(content) = <<>> THEN <<>>
                ELSE IF triggers = <<>> THEN <<>>
                ELSE find_match(content, triggers)
       IN  tasks' = Append(tasks, NewTask(session_id, content, from_me, m, InFlight))

\* An event reaches the core (the stream entry that carried it is left out).
Start(session_id, content, from_me) ==
    /\ SpawnIncoming(session_id, content, from_me)
    /\ UNCHANGED <<flowCfg, boots, call, ingress, now, lock, executions, jobs, outbound>>

Trig(t) == tasks[t].trigger[1]
KeyOf(t) == lock_key(tasks[t].session, Trig(t).flowId)

\* Faulty variant: a refused task still runs the cleanup.
AfterDenied_Cleanup == "release"

\* Where a task whose SET NX was refused goes: it returns Ok(()).
AfterDenied == "done"

\* SET key 1 NX EX 30
AcquireLock(t) ==
    /\ tasks[t].pc = "lock"
    /\ IF KeyPresent(KeyOf(t))
       THEN /\ tasks' = [tasks EXCEPT ![t].pc = AfterDenied, ![t].result = "ok"]
            /\ UNCHANGED lock
       ELSE /\ tasks' = [tasks EXCEPT ![t].pc = "begin", ![t].acquired = TRUE]
            /\ lock' = [lock EXCEPT ![KeyOf(t)] = now + LockTtlMs]
    /\ UNCHANGED <<flowCfg, boots, call, ingress, now, executions, jobs, outbound>>

\* The next statement of the admission transaction, from check `from` on.
NextCheck(from, tr) ==
    IF from = "cooldown" /\ tr.cooldownMs > 0 THEN "cooldown"
    ELSE IF from \in {"cooldown", "usage"} /\ tr.usageLimit > 0 THEN "usage"
    ELSE IF from \in {"cooldown", "usage", "exclusion"} /\ tr.excludesFlows # {} THEN "exclusion"
    ELSE "insert"

\* pool.begin()
Begin(t) ==
    /\ tasks[t].pc = "begin"
    /\ tasks' = [tasks EXCEPT ![t].pc = NextCheck("cooldown", Trig(t)), ![t].txStart = now]
    /\ UNCHANGED <<flowCfg, boots, call, ingress, now, lock, executions, jobs, outbound>>

Reject(t, msg) ==
    tasks' = [tasks EXCEPT ![t].pc = "failrow", ![t].msg = msg]

CooldownCheck(t) ==
    /\ tasks[t].pc = "cooldown"
    /\ LET started_at == LastStartedAt(tasks[t].session, Trig(t).flowId)
       IN  IF CooldownRejects(Trig(t).cooldownMs, started_at)
           THEN Reject(t, <<"Cooldown active", now - started_at, Trig(t).cooldownMs>>)
           ELSE tasks' = [tasks EXCEPT ![t].pc = NextCheck("usage", Trig(t)),
                                       ![t].passed = @ \cup {"cooldown"}]
    /\ UNCHANGED <<flowCfg, boots, call, ingress, now, lock, executions, jobs, outbound>>

\* The cooldown check reads the fetched row with row.get("startedAt") as a
\* DateTime<Utc>, while the Execution struct declares the same column a
\* NaiveDateTime.  row.get panics when the column's type is not the one
\* asked for, so on a row the decode either succeeds (CooldownCheck) or
\* panics, as the schema decides: the task unwinds from inside the block.
Panic(t) ==
    /\ tasks[t].pc = "cooldown"
    /\ LastStartedAt(tasks[t].session, Trig(t).flowId) # -1
    /\ tasks' = [tasks EXCEPT ![t].pc = "panicked"]
    /\ UNCHANGED <<flowCfg, boots, call, ingress, now, lock, executions, jobs, outbound>>

UsageCheck(t) ==
    /\ tasks[t].pc = "usage"
    /\ LET count == CountExecutions(tasks[t].session, Trig(t).flowId)
       IN  IF UsageRejects(Trig(t).usageLimit, count)
           THEN Reject(t, <<"Usage limit reached", count, Trig(t).usageLimit>>)
           ELSE tasks' = [tasks EXCEPT ![t].pc = NextCheck("exclusion", Trig(t)),
                                       ![t].passed = @ \cup {"usage"}]
    /\ UNCHANGED <<flowCfg, boots, call, ingress, now, lock, executions, jobs, outbound>>

ExclusionCheck(t) ==
    /\ tasks[t].pc = "exclusion"
    /\ LET conflict_count == CountConflicts(tasks[t].session, Trig(t).excludesFlows)
       IN  IF ExclusionRejects(Trig(t).excludesFlows, conflict_count)
           THEN Reject(t, <<"Mutually exclusive flow already executed">>)
           ELSE tasks' = [tasks EXCEPT ![t].pc = "insert",
                                       ![t].passed = @ \cup {"exclusion"}]
    /\ UNCHANGED <<flowCfg, boots, call, ingress, now, lock, executions, jobs, outbound>>

ExecutionRow(t, status, started_at, completed_at, error) ==
    [sessionId |-> tasks[t].session, flowId |-> Trig(t).flowId, status |-> status,
     currentStep |-> 0, startedAt |-> started_at, completedAt |-> completed_at,
     error |-> error, trigger |-> Trig(t).keyword,
     task |-> t, insertedAs |-> status, invoked |-> <<>>]

\* Faulty variant: the lock is released right after the commit.
AfterCommit_Release == "release"

\* Where the admission goes once the RUNNING row is committed.
AfterCommit == "sched_fetch"

\* INSERT ... 'RUNNING' and COMMIT (NOW() is the transaction's start time).
InsertRunning(t) ==
    /\ tasks[t].pc = "insert"
    /\ executions' = Append(executions,
                            ExecutionRow(t, "RUNNING", tasks[t].txStart, -1, <<>>))
    /\ tasks' = [tasks EXCEPT ![t].pc = AfterCommit, ![t].execId = Len(executions) + 1]
    /\ UNCHANGED <<flowCfg, boots, call, ingress, now, lock, jobs, outbound>>

\* Faulty variant: the rejection does not return and falls through to the INSERT.
AfterFailedRow_FallThrough == "insert"

\* Where the admission goes after create_failed_execution: `return Ok(())`
\* leaves the block for the lock release.
AfterFailedRow == "release"

\* create_failed_execution, after the rollback.
create_failed_execution(t) ==
    /\ tasks[t].pc = "failrow"
    /\ executions' = Append(executions, ExecutionRow(t, "FAILED", now, now, tasks[t].msg))
    /\ tasks' = [tasks EXCEPT ![t].pc = AfterFailedRow, ![t].result = "ok"]
    /\ UNCHANGED <<flowCfg, boots, call, ingress, now, lock, jobs, outbound>>

\* DEL key
ReleaseLock(t) ==
    /\ tasks[t].pc = "release"
    /\ lock' = [lock EXCEPT ![KeyOf(t)] = -1]
    /\ tasks' = [tasks EXCEPT ![t].pc = "done", ![t].released = TRUE]
    /\ UNCHANGED <<flowCfg, boots, call, ingress, now, executions, jobs, outbound>>

(***************************************************************************)
(* flow_engine.rs: schedule_step, execute_and_advance; processors.rs       *)
(***************************************************************************)
\* The delay is computed in 64-bit integers, which do not fit this model's
\* numbers: such a value is kept as hi * LIMB + lo with 0 <= lo < LIMB.
LIMB == 65536

Wide(n) == [hi |-> n \div LIMB, lo |-> n % LIMB]

WZero == Wide(0)

WNeg(w) ==
    IF w.lo = 0 THEN [hi |-> -w.hi, lo |-> 0] ELSE [hi |-> -w.hi - 1, lo |-> LIMB - w.lo]

WAdd(a, b) ==
    LET sum == a.lo + b.lo
    IN  [hi |-> a.hi + b.hi + (sum \div LIMB), lo |-> sum % LIMB]

\* w * k for a small k.
WMul(w, k) ==
    LET low == w.lo * k
    IN  [hi |-> w.hi * k + (low \div LIMB), lo |-> low % LIMB]

WLess(a, b) == a.hi < b.hi \/ (a.hi = b.hi /\ a.lo < b.lo)

WLeq(a, b) == a = b \/ WLess(a, b)

\* Rust's `/`: the quotient is rounded toward zero.
WTruncDiv(w, k) ==
    LET Quot(u) == LET r == u.hi % k
                   IN  [hi |-> u.hi \div k, lo |-> (r * LIMB + u.lo) \div k]
    IN  IF w.hi >= 0 THEN Quot(w) ELSE WNeg(Quot(WNeg(w)))

WMax(a, b) == IF WLess(a, b) THEN b ELSE a

\* Faulty variant: the arithmetic is done in the columns' 32 bits (without
\* `as i64`) and wraps.
Wrap_I32(w) ==
    LET h == w.hi % LIMB
    IN  [hi |-> IF h >= LIMB \div 2 THEN h - LIMB ELSE h, lo |-> w.lo]

\* The value an arithmetic result has in the 64 bits of the computation
\* (`step.delay_ms as i64`, `step.jitter_pct as i64`): a value kept as
\* above has |hi| < 2^31, which is inside 64 bits, and is left as it is.
Wrap(w) == w

\* variance = (base * jitter_pct) / 100
Variance(delay_ms, jitter_pct) ==
    WTruncDiv(Wrap(WMul(Wide(delay_ms), jitter_pct)), 100)

\* The values gen_range(-variance..=variance) is examined at: the ends of
\* the range, their neighbours and the middle; 0 when variance <= 0.
JitterSamples(variance) ==
    IF WLess(WZero, variance)
    THEN {j \in {WNeg(variance), WAdd(WNeg(variance), Wide(1)), Wide(-1), WZero, Wide(1),
                 WAdd(variance, Wide(-1)), variance} :
              WLeq(WNeg(variance), j) /\ WLeq(j, variance)}
    ELSE {WZero}

\* final_delay = max(0, base + jitter) as u64
FinalDelay(delay_ms, jitter) == WMax(WZero, Wrap(WAdd(Wide(delay_ms), jitter)))

\* Whether a result left the width of the computation on the way.
Overflows(delay_ms, jitter_pct, jitter) ==
    \/ Wrap(WMul(Wide(delay_ms), jitter_pct)) # WMul(Wide(delay_ms), jitter_pct)
    \/ Wrap(WAdd(Wide(delay_ms), jitter)) # WAdd(Wide(delay_ms), jitter)

ToInt(w) == w.hi * LIMB + w.lo

\* The sleeps schedule_step may compute for a step of the step table
\* (whose delays are small): every jitter of the range.
FinalDelays(step) ==
    LET variance == ToInt(Variance(step.delayMs, step.jitterPct))
        jitters == IF variance > 0 THEN (-variance)..variance ELSE {0}
    IN  {ToInt(FinalDelay(step.delayMs, Wide(j))) : j \in jitters}

\* Faulty variant: the first step at or after the order is taken.
FindStep_SkipGap(flow_id, step_order) ==
    SelectSeq(StepTable, LAMBDA s :
        /\ s.flowId = flow_id /\ s.order >= step_order
        /\ \A i \in 1..Len(StepTable) :
              (StepTable[i].flowId = flow_id /\ StepTable[i].order >= step_order)
                  => StepTable[i].order >= s.order)

\* SELECT * FROM "Step" WHERE "flowId" = $1, then find(|s| s.order == step_order)
FindStep(flow_id, step_order) ==
    SelectSeq(StepTable, LAMBDA s : s.flowId = flow_id /\ s.order = step_order)

\* Faulty variant: schedule_step does not look at the status.
ScheduleProceeds_AnyStatus(x) == x \in 1..Len(executions)

\* First half of schedule_step: the execution is loaded and must be RUNNING.
ScheduleProceeds(x) == x \in 1..Len(executions) /\ executions[x].status = "RUNNING"

\* Second half of schedule_step: no step at this order completes the
\* execution; otherwise a timer task is spawned.
\* Faulty variant: the status is written without the completion time.
CompleteExecution_StatusOnly(x) ==
    executions' = [executions EXCEPT ![x].status = "COMPLETED"]

CompleteExecution(x) ==
    executions' = [executions EXCEPT ![x].status = "COMPLETED", ![x].completedAt = now]

SpawnTimer(x, step, delay, rest) ==
    jobs' = rest \cup {[exec |-> x, order |-> step.order, pc |-> "sleep", due |-> now + delay,
                        seen |-> "none"]}

\* schedule_step(state, execution_id, 0) awaited inside the admission block.
AdmissionScheduleFetch(t) ==
    /\ tasks[t].pc = "sched_fetch"
    /\ IF ScheduleProceeds(tasks[t].execId)
       THEN tasks' = [tasks EXCEPT ![t].pc = "sched_steps"]
       ELSE tasks' = [tasks EXCEPT ![t].pc = "release", ![t].scheduled = TRUE,
                                   ![t].result = "ok"]
    /\ UNCHANGED <<flowCfg, boots, call, ingress, now, lock, executions, jobs, outbound>>

AdmissionScheduleSteps(t) ==
    /\ tasks[t].pc = "sched_steps"
    /\ LET x == tasks[t].execId
           found == FindStep(executions[x].flowId, 0)
       IN  IF found = <<>>
           THEN CompleteExecution(x) /\ UNCHANGED jobs
           ELSE /\ \E d \in FinalDelays(found[1]) : SpawnTimer(x, found[1], d, jobs)
                /\ UNCHANGED executions
    /\ tasks' = [tasks EXCEPT ![t].pc = "release", ![t].scheduled = TRUE, ![t].result = "ok"]
    /\ UNCHANGED <<flowCfg, boots, call, ingress, now, lock, outbound>>

\* Faulty variant: currentStep is advanced past the step being dispatched.
DispatchedStep_Next(step_order) == step_order + 1

\* The value execute_and_advance writes to "currentStep" for a step.
DispatchedStep(step_order) == step_order

\* The timer fires; execute_and_advance updates currentStep.
Dispatch(j) ==
    /\ j.pc = "sleep"
    /\ now >= j.due
    /\ executions' = [executions EXCEPT ![j.exec].currentStep = DispatchedStep(j.order)]
    /\ jobs' = (jobs \ {j}) \cup {[j EXCEPT !.pc = "process",
                                            !.seen = executions[j.exec].status]}
    /\ UNCHANGED <<flowCfg, boots, call, ingress, now, lock, tasks, outbound>>

(***************************************************************************)
(* processors.rs: execute_step                                             *)
(***************************************************************************)
DigitChars == {"0", "1", "2", "3", "4", "5", "6", "7", "8", "9"}

DigitValue(c) ==
    CASE c = "0" -> 0 [] c = "1" -> 1 [] c = "2" -> 2 [] c = "3" -> 3 [] c = "4" -> 4
      [] c = "5" -> 5 [] c = "6" -> 6 [] c = "7" -> 7 [] c = "8" -> 8 [] c = "9" -> 9

RECURSIVE DecimalValue(_)
DecimalValue(s) ==
    IF s = <<>> THEN 0
    ELSE DecimalValue(SubSeq(s, 1, Len(s) - 1)) * 10 + DigitValue(s[Len(s)])

\* str::parse::<u32>: an optional "+", then one or more digits; Result
\* as a sequence of length 0 or 1.  The time strings examined have at most
\* four digits, far from the values (2^32 and above) that parse rejects.
parse_u32(s) ==
    LET d == IF s # <<>> /\ Head(s) = "+" THEN Tail(s) ELSE s
    IN  IF d # <<>> /\ \A i \in 1..Len(d) : d[i] \in DigitChars
        THEN <<DecimalValue(d)>>
        ELSE <<>>

\* The closure to_minutes: "H:M" split at ':' into exactly two parts that
\* both parse, as h * 60 + m (u32 arithmetic, which the values of the time
\* strings examined do not leave).
to_minutes(time_str) ==
    LET colons == {i \in 1..Len(time_str) : time_str[i] = ":"}
    IN  IF Cardinality(colons) # 1 THEN <<>>
        ELSE LET c == CHOOSE i \in colons : TRUE
                 h == parse_u32(SubSeq(time_str, 1, c - 1))
                 m == parse_u32(SubSeq(time_str, c + 1, Len(time_str)))
             IN  IF h # <<>> /\ m # <<>> THEN <<h[1] * 60 + m[1]>> ELSE <<>>

\* Faulty variant: a window that crosses midnight is tested like one that
\* does not.
is_match_NoWrap(start, end, current_minutes) ==
    current_minutes >= start /\ current_minutes < end

\* The window test of a branch whose start and end parsed.
is_match(start, end, current_minutes) ==
    IF start < end
    THEN current_minutes >= start /\ current_minutes < end
    ELSE current_minutes >= start \/ current_minutes < end

\* A branch is taken when both of its times parse and the window test
\* holds.
BranchMatches(branch, current_minutes) ==
    LET start == to_minutes(branch.startTime)
        end == to_minutes(branch.endTime)
    IN  /\ start # <<>>
        /\ end # <<>>
        /\ is_match(start[1], end[1], current_minutes)

NoPayload == [text |-> <<>>, image |-> <<>>, audio |-> <<>>, caption |-> <<>>, ptt |-> <<>>]

\* The payload projected from a branch or from the fallback.
ProjectBranch(b) ==
    CASE b.type = "TEXT" -> [NoPayload EXCEPT !.text = b.content]
      [] b.type = "IMAGE" ->
            IF b.mediaUrl # <<>>
            THEN [NoPayload EXCEPT !.image = b.mediaUrl, !.caption = b.content]
            ELSE NoPayload
      [] b.type = "AUDIO" ->
            IF b.mediaUrl # <<>>
            THEN [NoPayload EXCEPT !.audio = b.mediaUrl, !.ptt = <<TRUE>>]
            ELSE NoPayload
      [] OTHER -> NoPayload

\* Faulty variant: a matched branch that yields no payload falls through
\* to the fallback.
ConditionalPayload_FallThrough(metadata, current_minutes) ==
    IF metadata = <<>> \/ ~metadata[1].valid THEN NoPayload
    ELSE LET meta == metadata[1]
             hits == {i \in 1..Len(meta.branches) :
                         BranchMatches(meta.branches[i], current_minutes)}
             first == CHOOSE i \in hits : \A k \in hits : i <= k
         IN  IF hits # {} /\ ProjectBranch(meta.branches[first]) # NoPayload
             THEN ProjectBranch(meta.branches[first])
             ELSE IF meta.fallback # <<>> THEN ProjectBranch(meta.fallback[1])
             ELSE NoPayload

\* The CONDITIONAL_TIME arm: metadata is NULL (<<>>) or a JSON value that
\* deserializes into ConditionalTimeMetadata (valid) or does not; the
\* branches are scanned in order up to the first that matches.
ConditionalPayload(metadata, current_minutes) ==
    IF metadata = <<>> \/ ~metadata[1].valid THEN NoPayload
    ELSE LET meta == metadata[1]
             hits == {i \in 1..Len(meta.branches) :
                         BranchMatches(meta.branches[i], current_minutes)}
             first == CHOOSE i \in hits : \A k \in hits : i <= k
         IN  IF hits # {} THEN ProjectBranch(meta.branches[first])
             ELSE IF meta.fallback # <<>> THEN ProjectBranch(meta.fallback[1])
             ELSE NoPayload

\* Faulty variant: an AUDIO step is sent as a voice note.
BuildPayload_AudioAsPtt(step, current_minutes) ==
    CASE step.type = "TEXT" -> [NoPayload EXCEPT !.text = step.content]
      [] step.type = "IMAGE" ->
            IF step.mediaUrl # <<>>
            THEN [NoPayload EXCEPT !.image = step.mediaUrl, !.caption = step.content]
            ELSE NoPayload
      [] step.type \in {"AUDIO", "PTT"} ->
            IF step.mediaUrl # <<>>
            THEN [NoPayload EXCEPT !.audio = step.mediaUrl, !.ptt = <<TRUE>>]
            ELSE NoPayload
      [] step.type = "CONDITIONAL_TIME" -> ConditionalPayload(step.metadata, current_minutes)
      [] OTHER -> NoPayload

\* The per-type payload of execute_step on a WHATSAPP session.
BuildPayload(step, current_minutes) ==
    CASE step.type = "TEXT" -> [NoPayload EXCEPT !.text = step.content]
      [] step.type = "IMAGE" ->
            IF step.mediaUrl # <<>>
            THEN [NoPayload EXCEPT !.image = step.mediaUrl, !.caption = step.content]
            ELSE NoPayload
      [] step.type \in {"AUDIO", "PTT"} ->
            IF step.mediaUrl # <<>>
            THEN [NoPayload EXCEPT !.audio = step.mediaUrl, !.ptt = <<step.type = "PTT">>]
            ELSE NoPayload
      [] step.type = "CONDITIONAL_TIME" -> ConditionalPayload(step.metadata, current_minutes)
      [] OTHER -> NoPayload

\* Faulty variant: the platform of the session is not looked at.
StepProcessor_AnyPlatform(step, execution, session, execution_id, step_order, current_minutes) ==
    IF step = <<>> \/ execution = <<>> \/ session = <<>> THEN <<>>
    ELSE LET payload == BuildPayload(step[1], current_minutes)
         IN  IF payload.text # <<>> \/ payload.image # <<>> \/ payload.audio # <<>>
             THEN << [bot_id |-> session[1].botId, target |-> session[1].identifier,
                      execution_id |-> execution_id, step_order |-> step_order,
                      payload |-> payload] >>
             ELSE <<>>

\* execute_step after its three fetch_optional queries, each of which
\* returned a row (<<row>>) or none (<<>>): the records appended to the
\* outbound stream (none or one).  The function returns Ok in every case.
StepProcessor(step, execution, session, execution_id, step_order, current_minutes) ==
    IF step = <<>> \/ execution = <<>> \/ session = <<>> THEN <<>>
    ELSE LET payload == BuildPayload(step[1], current_minutes)
         IN  IF /\ session[1].platform = "WHATSAPP"
                /\ (payload.text # <<>> \/ payload.image # <<>> \/ payload.audio # <<>>)
             THEN << [bot_id |-> session[1].botId, target |-> session[1].identifier,
                      execution_id |-> execution_id, step_order |-> step_order,
                      payload |-> payload] >>
             ELSE <<>>

\* chrono::Utc::now() in the zone's minutes of the day.
MinuteOfDay(ms) == (ms \div 60000) % 1440

\* Records execute_step appends to the outbound stream (none or one).
execute_step(execution_id, step_id, step_order) ==
    LET step == SelectSeq(StepTable, LAMBDA s : s.id = step_id)
        execution == IF execution_id \in 1..Len(executions)
                     THEN <<executions[execution_id]>> ELSE <<>>
        session == IF execution # <<>> /\ execution[1].sessionId \in Sessions
                   THEN <<SessionTable[execution[1].sessionId]>> ELSE <<>>
    IN  StepProcessor(IF step = <<>> THEN <<>> ELSE <<step[1]>>, execution, session,
                      execution_id, step_order, MinuteOfDay(now))

\* The processor invocations of an execution so far (kept with the row for
\* the properties; the program does not store it): the process run, the
\* step's order, the execution's status when the step was dispatched (the
\* job carries it from the currentStep update in `seen`) and what
\* execute_step returned.
Invocation(j, result) ==
    [boot |-> boots, order |-> j.order, status |-> j.seen, result |-> result]

\* Faulty variant: the same order is scheduled again.
NextOrder_Same(step_order) == step_order

\* The step order execute_and_advance hands to schedule_step afterwards.
NextOrder(step_order) == step_order + 1

\* execute_and_advance runs the processor, then calls schedule_step(order + 1).
Process(j) ==
    /\ j.pc = "process"
    /\ LET step == FindStep(executions[j.exec].flowId, j.order)[1]
       IN  outbound' = outbound \o execute_step(j.exec, step.id, step.order)
    /\ executions' = [executions EXCEPT ![j.exec].invoked = Append(@, Invocation(j, "Ok"))]
    /\ jobs' = (jobs \ {j}) \cup {[j EXCEPT !.pc = "sched_fetch", !.order = NextOrder(j.order),
                                            !.seen = "none"]}
    /\ UNCHANGED <<flowCfg, boots, call, ingress, now, lock, tasks>>

\* Faulty variant: a processor error ends the scheduler's task.
AfterProcessorError_Stop == "stopped"

\* Where execute_and_advance goes when the processor returned Err.
AfterProcessorError == "sched_fetch"

\* One of the processor's three queries fails: execute_step returns Err
\* before it emits; execute_and_advance writes "Step {order} error: ..."
\* to the row's error with an UPDATE whose result it drops (`let _ =`),
\* so the message is stored or, when that statement fails too, is not;
\* then it goes on to schedule_step(order + 1).
ProcessorError(j) ==
    /\ j.pc = "process"
    /\ \E stored \in BOOLEAN :
          executions' = [executions EXCEPT
              ![j.exec].invoked = Append(@, Invocation(j, "Err")),
              ![j.exec].error = IF stored THEN <<"Step error", j.order>> ELSE @]
    /\ jobs' = (jobs \ {j}) \cup {[j EXCEPT !.pc = AfterProcessorError,
                                            !.order = NextOrder(j.order), !.seen = "none"]}
    /\ UNCHANGED <<flowCfg, boots, call, ingress, now, lock, tasks, outbound>>

ScheduleFetch(j) ==
    /\ j.pc = "sched_fetch"
    /\ IF ScheduleProceeds(j.exec)
       THEN jobs' = (jobs \ {j}) \cup {[j EXCEPT !.pc = "sched_steps"]}
       ELSE jobs' = jobs \ {j}
    /\ UNCHANGED <<flowCfg, boots, call, ingress, now, lock, tasks, executions, outbound>>

ScheduleSteps(j) ==
    /\ j.pc = "sched_steps"
    /\ LET found == FindStep(executions[j.exec].flowId, j.order)
       IN  IF found = <<>>
           THEN CompleteExecution(j.exec) /\ jobs' = jobs \ {j}
           ELSE /\ \E d \in FinalDelays(found[1]) : SpawnTimer(j.exec, found[1], d, jobs \ {j})
                /\ UNCHANGED executions
    /\ UNCHANGED <<flowCfg, boots, call, ingress, now, lock, tasks, outbound>>

\* schedule_step fails to load the execution or the flow's steps: the
\* error is logged and schedule_step returns; nothing is spawned.
ScheduleDbError(j) ==
    /\ j.pc \in {"sched_fetch", "sched_steps"}
    /\ jobs' = jobs \ {j}
    /\ UNCHANGED <<flowCfg, boots, call, ingress, now, lock, tasks, executions, outbound>>

\* The same failure in the schedule_step call of the admission: the
\* admission goes on to release the lock.
AdmissionScheduleDbError(t) ==
    /\ tasks[t].pc \in {"sched_fetch", "sched_steps"}
    /\ tasks' = [tasks EXCEPT ![t].pc = "release", ![t].scheduled = TRUE, ![t].result = "ok"]
    /\ UNCHANGED <<flowCfg, boots, call, ingress, now, lock, executions, jobs, outbound>>

\* Status values an external actor writes to stop an execution.
StopStatuses == {"FAILED"}

\* An external actor flips a RUNNING execution's status in the database.
ExternalStop(x) ==
    /\ executions[x].status = "RUNNING"
    /\ \E st \in StopStatuses : executions' = [executions EXCEPT ![x].status = st]
    /\ UNCHANGED <<flowCfg, boots, call, ingress, now, lock, tasks, jobs, outbound>>

\* SELECT * FROM "Execution" WHERE status = 'RUNNING'
RunningExecutions_All == 1..Len(executions)

RunningExecutions == {x \in 1..Len(executions) : executions[x].status = "RUNNING"}

\* Faulty variant: recovery starts every RUNNING row over at its first step.
RecoveryOrder_Zero(row) == 0

\* Faulty variant: recovery resumes after the recorded step.
RecoveryOrder_Next(row) == row.currentStep + 1

\* The step order recovery hands to schedule_step for a row.
RecoveryOrder(row) == row.currentStep

\* The process dies (its tasks and timers are gone; rows, lock keys and
\* the outbound stream stay) and is started again: main runs
\* recover_running_executions before it reads the ingress stream, which
\* calls schedule_step(id, currentStep) for every RUNNING row.
CrashAndRecover ==
    /\ boots < MaxRestarts
    /\ boots' = boots + 1
    /\ tasks' = [t \in 1..Len(tasks) |->
                    IF t \in InFlight THEN [tasks[t] EXCEPT !.pc = "crashed"] ELSE tasks[t]]
    /\ LET ends == {x \in RunningExecutions :
                        FindStep(executions[x].flowId, RecoveryOrder(executions[x])) = <<>>}
           step(x) == FindStep(executions[x].flowId, RecoveryOrder(executions[x]))[1]
       IN  /\ executions' = [x \in 1..Len(executions) |->
                                IF x \in ends
                                THEN [executions[x] EXCEPT !.status = "COMPLETED",
                                                           !.completedAt = now]
                                ELSE executions[x]]
           /\ \E d \in [RunningExecutions \ ends ->
                            UNION {FinalDelays(step(x)) : x \in RunningExecutions \ ends}] :
                 /\ \A x \in RunningExecutions \ ends : d[x] \in FinalDelays(step(x))
                 /\ jobs' = {[exec |-> x, order |-> step(x).order, pc |-> "sleep",
                              due |-> now + d[x], seen |-> "none"] :
                                x \in RunningExecutions \ ends}
    /\ UNCHANGED <<flowCfg, call, now, lock, outbound>>

\* A crash and restart; the reply the reader loop was going through is
\* gone with the process.
Restart ==
    /\ CrashAndRecover
    /\ ingress' = [ingress EXCEPT !.batch = <<>>]

\* Faulty variant: the keys have no TTL.
ExpireKeys_Never(l, t) == l

\* The keys Redis holds at time t: those whose TTL has run out are gone.
ExpireKeys(l, t) ==
    [k \in LockKeys |-> IF l[k] # -1 /\ l[k] <= t THEN -1 ELSE l[k]]

ClockStep ==
    /\ now' = now + TickMs
    /\ lock' = ExpireKeys(lock, now + TickMs)
    /\ UNCHANGED <<flowCfg, boots, call, ingress, tasks, executions, jobs, outbound>>

\* Time passes; Redis drops the keys whose TTL has run out.  Time goes on
\* as long as a timer is still to fire.
Tick ==
    /\ \/ now < MaxTicks * TickMs
       \/ \E j \in jobs : j.pc = "sleep" /\ j.due > now
    /\ ClockStep

\* Time goes on as long as a key's TTL is still to run out.
TickWhileLocked ==
    /\ \E k \in LockKeys : lock[k] # -1 /\ lock[k] > now
    /\ ClockStep

(***************************************************************************)
(* Faults: a failing database statement                                    *)
(***************************************************************************)
\* Faulty variant: the error leaves process_incoming_message at once, past
\* the DEL.
DbError_KeepsLock(t) ==
    /\ tasks[t].pc \in {"begin", "cooldown", "usage", "exclusion", "insert"}
    /\ tasks' = [tasks EXCEPT ![t].pc = "done", ![t].result = "err"]
    /\ UNCHANGED <<flowCfg, boots, call, ingress, now, lock, executions, jobs, outbound>>

\* A statement of the admission transaction fails: `?` leaves the block
\* with Err, the transaction is dropped (rolled back).
DbError(t) ==
    /\ tasks[t].pc \in {"begin", "cooldown", "usage", "exclusion", "insert"}
    /\ tasks' = [tasks EXCEPT ![t].pc = "release", ![t].result = "err"]
    /\ UNCHANGED <<flowCfg, boots, call, ingress, now, lock, executions, jobs, outbound>>

\* The INSERT of create_failed_execution fails: logged, the admission goes on.
FailedRowError(t) ==
    /\ tasks[t].pc = "failrow"
    /\ tasks' = [tasks EXCEPT ![t].pc = "release", ![t].result = "ok"]
    /\ UNCHANGED <<flowCfg, boots, call, ingress, now, lock, executions, jobs, outbound>>

(***************************************************************************)
(* Specifications                                                          *)
(***************************************************************************)
\* Flow configurations the database may hold: no constraint; a cooldown; a
\* usage limit; two flows excluding each other; all three constraints on F1.
NoConstraint == [cooldownMs |-> 0, usageLimit |-> 0, excludesFlows |-> {}]

FlowConfigs ==
    { [f \in Flows |-> NoConstraint],
      [f \in Flows |-> IF f = "F1" THEN [NoConstraint EXCEPT !.cooldownMs = 2 * TickMs]
                       ELSE NoConstraint],
      [f \in Flows |-> IF f = "F1" THEN [NoConstraint EXCEPT !.usageLimit = 1]
                       ELSE NoConstraint],
      [f \in Flows |-> [NoConstraint EXCEPT !.excludesFlows = Flows \ {f}]],
      [f \in Flows |-> IF f = "F1"
                       THEN [cooldownMs |-> 2 * TickMs, usageLimit |-> 1,
                             excludesFlows |-> {"F2"}]
                       ELSE NoConstraint] }

\* "Execution" rows left by earlier runs of the process: none, or one
\* finished execution of F2 on s1.
EarlierRow ==
    [sessionId |-> "s1", flowId |-> "F2", status |-> "COMPLETED", currentStep |-> 0,
     startedAt |-> 0, completedAt |-> 0, error |-> <<>>, trigger |-> <<"h">>,
     task |-> 0, insertedAs |-> "RUNNING", invoked |-> <<>>]

Histories == { <<>>, <<EarlierRow>> }

NoCall == [fn |-> "none", args |-> <<>>, result |-> <<>>]

\* The incoming stream before the gateway has written to it.
NoIngress == [stream |-> <<>>, batch |-> <<>>, pending |-> {}, next |-> 1]

InitWith(configs, histories) ==
    /\ flowCfg \in configs
    /\ now = 0
    /\ lock = [k \in LockKeys |-> -1]
    /\ tasks = <<>>
    /\ executions \in histories
    /\ jobs = {}
    /\ outbound = <<>>
    /\ boots = 0
    /\ call = NoCall
    /\ ingress = NoIngress

\* The whole core: every event, every flow configuration, every task.
AllEvents == Sessions \X Contents \X BOOLEAN

Init == InitWith(FlowConfigs, Histories)

Next ==
    \/ \E e \in AllEvents : Start(e[1], e[2], e[3])
    \/ \E t \in 1..Len(tasks) : AcquireLock(t)
    \/ \E t \in 1..Len(tasks) : Begin(t)
    \/ \E t \in 1..Len(tasks) : CooldownCheck(t)
    \/ \E t \in 1..Len(tasks) : Panic(t)
    \/ \E t \in 1..Len(tasks) : UsageCheck(t)
    \/ \E t \in 1..Len(tasks) : ExclusionCheck(t)
    \/ \E t \in 1..Len(tasks) : InsertRunning(t)
    \/ \E t \in 1..Len(tasks) : create_failed_execution(t)
    \/ \E t \in 1..Len(tasks) : AdmissionScheduleFetch(t)
    \/ \E t \in 1..Len(tasks) : AdmissionScheduleSteps(t)
    \/ \E t \in 1..Len(tasks) : ReleaseLock(t)
    \/ \E j \in jobs : Dispatch(j)
    \/ \E j \in jobs : Process(j)
    \/ \E j \in jobs : ScheduleFetch(j)
    \/ \E j \in jobs : ScheduleSteps(j)
    \/ Tick

Spec == Init /\ [][Next]_vars

\* Admission alone.  The timers spawned by schedule_step have not fired yet:
\* the scheduler only writes currentStep, status, completedAt and error of
\* rows and appends to the outbound stream, none of which admission reads.
AdmissionEvents ==
    { <<"s1", <<" ", "H", "I">>, FALSE>>,
      <<"s1", <<"o", "h">>, FALSE>>,
      <<"s2", <<"o", "h">>, TRUE>>,
      <<"s1", <<" ", " ">>, FALSE>> }

NextAdmission ==
    \/ \E e \in AdmissionEvents : Start(e[1], e[2], e[3])
    \/ \E t \in 1..Len(tasks) : AcquireLock(t)
    \/ \E t \in 1..Len(tasks) : Begin(t)
    \/ \E t \in 1..Len(tasks) : CooldownCheck(t)
    \/ \E t \in 1..Len(tasks) : Panic(t)
    \/ \E t \in 1..Len(tasks) : UsageCheck(t)
    \/ \E t \in 1..Len(tasks) : ExclusionCheck(t)
    \/ \E t \in 1..Len(tasks) : InsertRunning(t)
    \/ \E t \in 1..Len(tasks) : create_failed_execution(t)
    \/ \E t \in 1..Len(tasks) : AdmissionScheduleFetch(t)
    \/ \E t \in 1..Len(tasks) : AdmissionScheduleSteps(t)
    \/ \E t \in 1..Len(tasks) : ReleaseLock(t)
    \/ Tick

SpecAdmission == Init /\ [][NextAdmission]_vars

\* Admission with failing database statements.
NextFault ==
    \/ NextAdmission
    \/ \E t \in 1..Len(tasks) : DbError(t)
    \/ \E t \in 1..Len(tasks) : FailedRowError(t)

SpecFault == Init /\ [][NextFault]_vars

\* The scheduler, on executions of flows without admission constraints.
SchedulerEvents ==
    { <<"s1", <<" ", "H", "I">>, FALSE>>,
      <<"s1", <<"o", "h">>, FALSE>>,
      <<"s1", <<"y", "o">>, FALSE>> }

\* The steps of admitted tasks and of the scheduler's tasks.
SchedulerSteps ==
    \/ \E t \in 1..Len(tasks) : AcquireLock(t)
    \/ \E t \in 1..Len(tasks) : Begin(t)
    \/ \E t \in 1..Len(tasks) : InsertRunning(t)
    \/ \E t \in 1..Len(tasks) : AdmissionScheduleFetch(t)
    \/ \E t \in 1..Len(tasks) : AdmissionScheduleSteps(t)
    \/ \E t \in 1..Len(tasks) : ReleaseLock(t)
    \/ \E j \in jobs : Dispatch(j)
    \/ \E j \in jobs : Process(j)
    \/ \E j \in jobs : ScheduleFetch(j)
    \/ \E j \in jobs : ScheduleSteps(j)
    \/ Tick

NextScheduler ==
    \/ \E e \in SchedulerEvents : Start(e[1], e[2], e[3])
    \/ SchedulerSteps

InitScheduler == InitWith({[f \in Flows |-> NoConstraint]}, {<<>>})

SpecScheduler == InitScheduler /\ [][NextScheduler]_vars

\* Admission of one event of any session, content and direction; F2 may
\* run once per session and has run on s1, so that its trigger leaves a
\* FAILED row there.
InitTriggers ==
    InitWith({[f \in Flows |-> IF f = "F2" THEN [NoConstraint EXCEPT !.usageLimit = 1]
                                ELSE NoConstraint]}, {<<EarlierRow>>})

NextTriggers ==
    \/ /\ Len(tasks) < MaxFollowedEvents
       /\ \E e \in AllEvents : Start(e[1], e[2], e[3])
    \/ SchedulerSteps
    \/ \E t \in 1..Len(tasks) : UsageCheck(t)
    \/ \E t \in 1..Len(tasks) : create_failed_execution(t)

SpecTriggers == InitTriggers /\ [][NextTriggers]_vars

\* find_match on its own: one call with a content and a candidate list
\* drawn from bounded sets.
MaxContentLen == 3
MaxCandidates == 3

MatchChars == {" ", "H", "h", "i"}
MatchContents == UNION {[1..n -> MatchChars] : n \in 0..MaxContentLen}
MatchKeywords == { <<>>, <<"h">>, <<"h", "i">>, <<"H", "i">> }
MatchTypes == {"EXACT", "CONTAINS", "REGEX"}

\* Candidate lists; a trigger's id is its position in the list.
MatchTriggerLists ==
    UNION {{[i \in 1..n |-> [id |-> i, keyword |-> f[i][1], matchType |-> f[i][2]]] :
                f \in [1..n -> MatchKeywords \X MatchTypes]} : n \in 0..MaxCandidates}

FindMatchCall(content, triggers) ==
    /\ call' = [fn |-> "find_match", args |-> <<content, triggers>>,
                result |-> find_match(content, triggers)]
    /\ UNCHANGED <<flowCfg, boots, ingress, now, lock, tasks, executions, jobs, outbound>>

NextMatcher ==
    /\ call.fn = "none"
    /\ \E content \in MatchContents : \E triggers \in MatchTriggerLists :
          FindMatchCall(content, triggers)

SpecMatcher == InitScheduler /\ [][NextMatcher]_vars

\* execute_step on its own: one call with rows, a metadata value and a
\* time of day drawn from bounded sets.
MaxBranches == 2

StepTypes == {"TEXT", "IMAGE", "AUDIO", "VIDEO", "DOCUMENT", "PTT", "CONDITIONAL_TIME"}

\* A JSON value that does not deserialize into ConditionalTimeMetadata.
InvalidMetadata == [valid |-> FALSE, branches |-> <<>>, fallback |-> <<>>]

\* Steps of every type, with and without content and mediaUrl; the
\* metadata (read by CONDITIONAL_TIME only) is NULL or invalid.
PlainSteps ==
    [id : {"p0"}, type : StepTypes, content : {<<>>, <<"hello">>},
     mediaUrl : {<<>>, <<"http://m/x">>}, metadata : {<<>>, <<InvalidMetadata>>}]

Optional(S) == {<<>>} \cup {<<x>> : x \in S}

ExecuteStepCall(step, execution, session, execution_id, step_order, current_minutes) ==
    /\ call' = [fn |-> "execute_step",
                args |-> [step |-> step, execution |-> execution, session |-> session,
                          execution_id |-> execution_id, step_order |-> step_order,
                          current_minutes |-> current_minutes],
                result |-> StepProcessor(step, execution, session, execution_id,
                                         step_order, current_minutes)]
    /\ UNCHANGED <<flowCfg, boots, ingress, now, lock, tasks, executions, jobs, outbound>>

\* Times of day as the metadata writes them, well-formed and not.
Time2200 == <<"2", "2", ":", "0", "0">>
Time0600 == <<"0", "6", ":", "0", "0">>
Time1400 == <<"1", "4", ":", "0", "0">>
Time2330 == <<"2", "3", ":", "3", "0">>
Time0000 == <<"0", "0", ":", "0", "0">>
TimeShort == <<"6", ":", "5">>
TimePlus == <<"+", "7", ":", "0", "5">>
TimeNoColon == <<"2", "2", "0", "0">>
TimeLetters == <<"a", "b", ":", "0", "0">>
TimeSeconds == <<"1", "2", ":", "0", "0", ":", "0", "0">>

TimeStrings ==
    {Time2200, Time0600, Time1400, Time2330, Time0000, TimeShort, TimePlus,
     TimeNoColon, TimeLetters, TimeSeconds}

\* Minutes of the day the clock may show, around the window borders.
Minutes == {0, 359, 360, 840, 1319, 1320, 1410, 1439}

\* Windows of the branches: across midnight, within the day, empty-looking
\* (start = end), and with a start that does not parse.
Windows ==
    { <<Time2200, Time0600>>, <<Time0600, Time2200>>, <<Time1400, Time1400>>,
      <<Time0000, Time0600>>, <<TimeNoColon, Time0600>> }

\* What a branch or the fallback carries: type, with content, with mediaUrl.
BranchKinds ==
    { <<"TEXT", TRUE, FALSE>>, <<"TEXT", FALSE, FALSE>>, <<"IMAGE", TRUE, TRUE>>,
      <<"IMAGE", TRUE, FALSE>>, <<"AUDIO", FALSE, TRUE>>, <<"VIDEO", TRUE, TRUE>> }

FallbackKinds == { <<"TEXT", TRUE, FALSE>>, <<"AUDIO", FALSE, TRUE>>, <<"VIDEO", TRUE, TRUE>> }

\* The i-th branch of a list (its content and mediaUrl name its position;
\* position 0 is the fallback).
BranchName(i) == IF i = 0 THEN "fallback" ELSE IF i = 1 THEN "b1" ELSE IF i = 2 THEN "b2" ELSE "b3"

MakeBranch(i, window, kind) ==
    [startTime |-> window[1], endTime |-> window[2], type |-> kind[1],
     content |-> IF kind[2] THEN <<BranchName(i)>> ELSE <<>>,
     mediaUrl |-> IF kind[3] THEN <<"http://m", BranchName(i)>> ELSE <<>>]

MakeFallback(kind) ==
    [type |-> kind[1],
     content |-> IF kind[2] THEN <<BranchName(0)>> ELSE <<>>,
     mediaUrl |-> IF kind[3] THEN <<"http://m", BranchName(0)>> ELSE <<>>]

BranchLists ==
    UNION {{[i \in 1..n |-> MakeBranch(i, f[i][1], f[i][2])] :
                f \in [1..n -> Windows \X BranchKinds]} : n \in 0..MaxBranches}

ConditionalMetadata ==
    {[valid |-> TRUE, branches |-> bs, fallback |-> fb] :
        bs \in BranchLists, fb \in Optional({MakeFallback(k) : k \in FallbackKinds})}

ConditionalStep(meta) ==
    [id |-> "c0", type |-> "CONDITIONAL_TIME", content |-> <<"hello">>,
     mediaUrl |-> <<"http://m/x">>, metadata |-> <<meta>>]

\* The window test of one branch on its own.
WindowCall(start_time, end_time, current_minutes) ==
    /\ call' = [fn |-> "window",
                args |-> [startTime |-> start_time, endTime |-> end_time,
                          current_minutes |-> current_minutes],
                result |-> BranchMatches([startTime |-> start_time, endTime |-> end_time],
                                         current_minutes)]
    /\ UNCHANGED <<flowCfg, boots, ingress, now, lock, tasks, executions, jobs, outbound>>

NextProcessor ==
    /\ call.fn = "none"
    /\ \/ \E step \in Optional(PlainSteps) : \E execution \in Optional({EarlierRow}) :
          \E session \in Optional({SessionTable[x] : x \in Sessions}) :
          \E execution_id \in {1, 2} : \E step_order \in {-1, 0, 3} :
             ExecuteStepCall(step, execution, session, execution_id, step_order, 0)
       \/ \E meta \in ConditionalMetadata : \E current_minutes \in Minutes :
             ExecuteStepCall(<<ConditionalStep(meta)>>, <<EarlierRow>>,
                             <<SessionTable["s1"]>>, 1, 0, current_minutes)
       \/ \E start_time \in TimeStrings : \E end_time \in TimeStrings :
          \E current_minutes \in Minutes :
             WindowCall(start_time, end_time, current_minutes)

SpecProcessor == InitScheduler /\ [][NextProcessor]_vars

\* schedule_step's delay on its own: delayMs and jitterPct as the columns
\* may hold them (INTEGER, 32 bits).
I32_MAX == 2147483647

DelayValues == {-5, 0, 1, 99, 100, 101, 30000, 21474837, I32_MAX - 47, I32_MAX}

JitterPcts == {-10, 0, 1, 33, 50, 99, 100, 150}

JitterCall(delay_ms, jitter_pct, jitter) ==
    /\ call' = [fn |-> "jitter",
                args |-> [delayMs |-> delay_ms, jitterPct |-> jitter_pct, jitter |-> jitter],
                result |-> [variance |-> Variance(delay_ms, jitter_pct),
                            final_delay |-> FinalDelay(delay_ms, jitter),
                            overflow |-> Overflows(delay_ms, jitter_pct, jitter)]]
    /\ UNCHANGED <<flowCfg, boots, ingress, now, lock, tasks, executions, jobs, outbound>>

NextJitter ==
    /\ call.fn = "none"
    /\ \E delay_ms \in DelayValues : \E jitter_pct \in JitterPcts :
       \E jitter \in JitterSamples(Variance(delay_ms, jitter_pct)) :
          JitterCall(delay_ms, jitter_pct, jitter)

SpecJitter == InitScheduler /\ [][NextJitter]_vars

\* The lock across a crash of the process: admission of events of one
\* session for one flow (the timers spawned are left asleep: the scheduler
\* does not touch the lock), the holder's death at any point, and Redis'
\* clock, which runs on whatever the process does.
LockEvents == { <<"s1", <<" ", "H", "I">>, FALSE>> }

NextLock ==
    \/ \E e \in LockEvents : Start(e[1], e[2], e[3])
    \/ \E t \in 1..Len(tasks) : AcquireLock(t)
    \/ \E t \in 1..Len(tasks) : Begin(t)
    \/ \E t \in 1..Len(tasks) : InsertRunning(t)
    \/ \E t \in 1..Len(tasks) : AdmissionScheduleFetch(t)
    \/ \E t \in 1..Len(tasks) : AdmissionScheduleSteps(t)
    \/ \E t \in 1..Len(tasks) : ReleaseLock(t)
    \/ Restart
    \/ Tick
    \/ TickWhileLocked

SpecLock == InitScheduler /\ [][NextLock]_vars /\ WF_vars(TickWhileLocked)

\* Admission of events for a flow under cooldown, on a session where the
\* flow was admitted once before (at time 0).
AdmittedRow ==
    [EarlierRow EXCEPT !.flowId = "F1", !.trigger = <<"H", "i">>]

InitCooldown ==
    InitWith({[f \in Flows |-> IF f = "F1" THEN [NoConstraint EXCEPT !.cooldownMs = 2 * TickMs]
                               ELSE NoConstraint]}, {<<AdmittedRow>>})

NextCooldown ==
    \/ \E e \in LockEvents : Start(e[1], e[2], e[3])
    \/ \E t \in 1..Len(tasks) : AcquireLock(t)
    \/ \E t \in 1..Len(tasks) : Begin(t)
    \/ \E t \in 1..Len(tasks) : CooldownCheck(t)
    \/ \E t \in 1..Len(tasks) : Panic(t)
    \/ \E t \in 1..Len(tasks) : create_failed_execution(t)
    \/ \E t \in 1..Len(tasks) : InsertRunning(t)
    \/ \E t \in 1..Len(tasks) : AdmissionScheduleFetch(t)
    \/ \E t \in 1..Len(tasks) : AdmissionScheduleSteps(t)
    \/ \E t \in 1..Len(tasks) : ReleaseLock(t)
    \/ Tick

SpecCooldown == InitCooldown /\ [][NextCooldown]_vars

(***************************************************************************)
(* main.rs: the reader loop of the incoming stream                         *)
(***************************************************************************)
MaxEntries == 2

\* XREADGROUP ... COUNT 10
READ_COUNT == 10

\* The log line of a NEW_MESSAGE shows the first 50 bytes of the text.
PREVIEW_BYTES == 50

Min(a, b) == IF a <= b THEN a ELSE b

\* Bytes of a character in UTF-8.
Utf8Len(c) == IF c = "€" THEN 3 ELSE 1

RECURSIVE ByteLen(_)
ByteLen(s) == IF s = <<>> THEN 0 ELSE Utf8Len(Head(s)) + ByteLen(Tail(s))

\* str::is_char_boundary: the byte offset is where a character starts, or
\* the end of the text.
is_char_boundary(s, n) == \E k \in 0..Len(s) : ByteLen(SubSeq(s, 1, k)) = n

\* &content[..content.len().min(50)] panics when byte 50 is inside a
\* character.
PreviewPanics(content) ==
    ~is_char_boundary(content, Min(ByteLen(content), PREVIEW_BYTES))

\* A text of 51 bytes whose byte 50 is inside its last character.
EuroText == [i \in 1..17 |-> "€"]

IngressTexts == { <<>>, <<"o", "h">>, EuroText }

\* What the gateway (or anyone else) may XADD: the name of the entry's
\* field, whether its bytes are UTF-8, and the document the bytes spell.
NoDoc ==
    [type |-> "NONE", sessionId |-> "s1", text |-> <<>>, fromMe |-> FALSE,
     executionId |-> 0, stepId |-> "none"]

EntryValues ==
    {[field |-> "payload", utf8 |-> TRUE,
      doc |-> [NoDoc EXCEPT !.type = "NEW_MESSAGE", !.text = c]] : c \in IngressTexts}
    \cup
    {[field |-> "payload", utf8 |-> TRUE,
      doc |-> [NoDoc EXCEPT !.type = "EXECUTE_STEP", !.executionId = 1, !.stepId = "b0"]],
     [field |-> "payload", utf8 |-> TRUE,
      doc |-> [NoDoc EXCEPT !.type = "EXECUTE_STEP", !.executionId = 1, !.stepId = "b2"]],
     [field |-> "payload", utf8 |-> TRUE,
      doc |-> [NoDoc EXCEPT !.type = "EXECUTE_STEP", !.executionId = 2, !.stepId = "b0"]],
     [field |-> "payload", utf8 |-> TRUE, doc |-> [NoDoc EXCEPT !.type = "OTHER_TYPE"]],
     [field |-> "payload", utf8 |-> TRUE, doc |-> [NoDoc EXCEPT !.type = "NOT_JSON"]],
     [field |-> "payload", utf8 |-> FALSE, doc |-> NoDoc],
     [field |-> "data", utf8 |-> TRUE, doc |-> NoDoc]}

\* What the loop makes of an entry: map.get("payload"), then
\* from_redis_value::<String>, then serde_json::from_str into one of the
\* two variants.
Decode(value) ==
    IF value.field # "payload" THEN "absent"
    ELSE IF ~value.utf8 THEN "not_string"
    ELSE IF value.doc.type \notin {"NEW_MESSAGE", "EXECUTE_STEP"} THEN "parse_error"
    ELSE value.doc.type

\* XADD agentic:queue:incoming by a producer.
GatewayXAdd(value) ==
    /\ ingress.next <= MaxEntries
    /\ ingress' = [ingress EXCEPT !.stream = Append(@, [id |-> ingress.next, value |-> value]),
                                  !.next = @ + 1]
    /\ UNCHANGED <<flowCfg, boots, call, now, lock, tasks, executions, jobs, outbound>>

\* XREADGROUP GROUP agentic_core_group core_worker_1 COUNT 10 STREAMS key > :
\* the entries delivered enter the group's pending list.
XReadGroup ==
    /\ ingress.batch = <<>>
    /\ ingress.stream # <<>>
    /\ LET n == Min(Len(ingress.stream), READ_COUNT)
       IN  ingress' = [ingress EXCEPT
                          !.batch = SubSeq(ingress.stream, 1, n),
                          !.stream = SubSeq(ingress.stream, n + 1, Len(ingress.stream)),
                          !.pending = @ \cup {ingress.stream[i].id : i \in 1..n}]
    /\ UNCHANGED <<flowCfg, boots, call, now, lock, tasks, executions, jobs, outbound>>

CurrentEntry == Head(ingress.batch)

\* The loop goes on to the next entry of the reply, with or without XACK.
NextEntry(ack) ==
    ingress' = [ingress EXCEPT !.batch = Tail(@),
                               !.pending = IF ack THEN @ \ {CurrentEntry.id} ELSE @]

\* Whether an entry without a string field "payload" is acknowledged: both
\* `if let` have no else.
AckUnreadable == FALSE

\* An entry without a field "payload", or whose payload is not a string.
SkipEntry ==
    /\ ingress.batch # <<>>
    /\ Decode(CurrentEntry.value) \in {"absent", "not_string"}
    /\ NextEntry(AckUnreadable)
    /\ UNCHANGED <<flowCfg, boots, call, now, lock, tasks, executions, jobs, outbound>>

\* A payload that is not JSON of either variant: logged and acknowledged.
AckPoison ==
    /\ ingress.batch # <<>>
    /\ Decode(CurrentEntry.value) = "parse_error"
    /\ NextEntry(TRUE)
    /\ UNCHANGED <<flowCfg, boots, call, now, lock, tasks, executions, jobs, outbound>>

\* NEW_MESSAGE: process_incoming_message is spawned with the text (empty
\* when there is none) and the entry is acknowledged.  The text's preview
\* is computed only when the info level is logged.
DispatchNewMessage ==
    /\ ingress.batch # <<>>
    /\ Decode(CurrentEntry.value) = "NEW_MESSAGE"
    /\ LET doc == CurrentEntry.value.doc
       IN  SpawnIncoming(doc.sessionId, doc.text, doc.fromMe)
    /\ NextEntry(TRUE)
    /\ UNCHANGED <<flowCfg, boots, call, now, lock, executions, jobs, outbound>>

\* NEW_MESSAGE at the info level (the default filter) with a text whose
\* byte 50 is inside a character: main panics in the log statement, before
\* the spawn and the XACK; the process is started again and reads on with
\* ">", which never delivers the rest of the reply again.
PreviewPanic ==
    /\ ingress.batch # <<>>
    /\ Decode(CurrentEntry.value) = "NEW_MESSAGE"
    /\ PreviewPanics(CurrentEntry.value.doc.text)
    /\ Restart

\* Faulty variant: the step goes through the scheduler's path, which
\* writes currentStep and sends the record under the step's own order.
DispatchExecuteStep_Advance ==
    /\ ingress.batch # <<>>
    /\ Decode(CurrentEntry.value) = "EXECUTE_STEP"
    /\ LET doc == CurrentEntry.value.doc
           step == SelectSeq(StepTable, LAMBDA st : st.id = doc.stepId)
           order == IF step = <<>> THEN 0 ELSE step[1].order
       IN  /\ outbound' = outbound \o execute_step(doc.executionId, doc.stepId, order)
           /\ executions' = [x \in 1..Len(executions) |->
                                IF x = doc.executionId
                                THEN [executions[x] EXCEPT !.currentStep = order]
                                ELSE executions[x]]
    /\ NextEntry(TRUE)
    /\ UNCHANGED <<flowCfg, boots, call, now, lock, tasks, jobs>>

\* EXECUTE_STEP: execute_step(execution_id, step_id, -1) is spawned and the
\* entry is acknowledged; the spawned call touches the outbound stream only.
DispatchExecuteStep ==
    /\ ingress.batch # <<>>
    /\ Decode(CurrentEntry.value) = "EXECUTE_STEP"
    /\ LET doc == CurrentEntry.value.doc
       IN  outbound' = outbound \o execute_step(doc.executionId, doc.stepId, -1)
    /\ NextEntry(TRUE)
    /\ UNCHANGED <<flowCfg, boots, call, now, lock, tasks, executions, jobs>>

NextIngress ==
    \/ \E value \in EntryValues : GatewayXAdd(value)
    \/ XReadGroup
    \/ SkipEntry
    \/ AckPoison
    \/ DispatchNewMessage
    \/ PreviewPanic
    \/ DispatchExecuteStep

\* The loop on its own (the tasks it spawns are left where they start),
\* with an earlier execution of F2 on s1 for EXECUTE_STEP to find.
InitIngress == InitWith({[f \in Flows |-> NoConstraint]}, {<<EarlierRow>>})

SpecIngress == InitIngress /\ [][NextIngress]_vars

\* The scheduler under fair scheduling: the runtime runs every task that
\* is ready (an admission, the scheduler's task of an execution) and the
\* clock goes on while a timer is still to fire.
TaskStep(t) ==
    /\ t \in 1..Len(tasks)
    /\ \/ AcquireLock(t) \/ Begin(t) \/ InsertRunning(t)
       \/ AdmissionScheduleFetch(t) \/ AdmissionScheduleSteps(t) \/ ReleaseLock(t)

JobStep(x) ==
    \E j \in jobs :
        /\ j.exec = x
        /\ Dispatch(j) \/ Process(j) \/ ScheduleFetch(j) \/ ScheduleSteps(j)

FairScheduling ==
    /\ \A t \in 1..MaxEvents : WF_vars(TaskStep(t))
    /\ \A x \in 1..MaxEvents : WF_vars(JobStep(x))
    /\ WF_vars(Tick)

NextLive ==
    \/ /\ Len(tasks) < MaxFollowedEvents
       /\ \E e \in SchedulerEvents : Start(e[1], e[2], e[3])
    \/ SchedulerSteps

SpecLive == InitScheduler /\ [][NextLive]_vars /\ FairScheduling

\* The scheduler with an external actor that stops executions.
StopEvents == { <<"s1", <<" ", "H", "I">>, FALSE>> }

NextStop ==
    \/ \E e \in StopEvents : Start(e[1], e[2], e[3])
    \/ SchedulerSteps
    \/ \E x \in 1..Len(executions) : ExternalStop(x)

SpecStop == InitScheduler /\ [][NextStop]_vars

\* The scheduler across a crash and restart of the process.
RecoveryEvents ==
    { <<"s1", <<" ", "H", "I">>, FALSE>>,
      <<"s1", <<"y", "o">>, FALSE>> }

NextRecovery ==
    \/ /\ Len(tasks) < MaxFollowedEvents
       /\ \E e \in RecoveryEvents : Start(e[1], e[2], e[3])
    \/ SchedulerSteps
    \/ Restart

\* Rows left by earlier runs of the process: a finished execution of F2
\* (its step 0 was dispatched in that run) and a refused trigger of F1.
EarlierCompletedRow ==
    [EarlierRow EXCEPT !.invoked = <<[boot |-> -1, order |-> 0, status |-> "RUNNING",
                                      result |-> "Ok"]>>]

EarlierFailedRow ==
    [EarlierRow EXCEPT !.flowId = "F1", !.status = "FAILED", !.trigger = <<"H", "i">>,
                       !.insertedAs = "FAILED",
                       !.error = <<"Usage limit reached", 1, 1>>]

InitRecovery ==
    InitWith({[f \in Flows |-> NoConstraint]}, {<<EarlierCompletedRow, EarlierFailedRow>>})

SpecRecovery == InitRecovery /\ [][NextRecovery]_vars

\* The scheduler with failing database statements in the processor and in
\* schedule_step.
NextSchedulerFault ==
    \/ /\ Len(tasks) < MaxFollowedEvents
       /\ \E e \in SchedulerEvents : Start(e[1], e[2], e[3])
    \/ SchedulerSteps
    \/ \E j \in jobs : ProcessorError(j)
    \/ \E j \in jobs : ScheduleDbError(j)
    \/ \E t \in 1..Len(tasks) : AdmissionScheduleDbError(t)

SpecSchedulerFault == InitScheduler /\ [][NextSchedulerFault]_vars

(***************************************************************************)
(* Properties                                                              *)
(***************************************************************************)
TaskIds == 1..Len(tasks)

\* The rows an event's task inserted.
RowsBy(t) == {i \in 1..Len(executions) : executions[i].task = t}

Finished(t) == tasks[t].pc = "done"

\* The task's SET NX was refused.
Denied(t) == tasks[t].trigger # <<>> /\ Finished(t) /\ ~tasks[t].acquired

\* The task is between its successful SET NX and its DEL.
Holding(t) ==
    tasks[t].acquired /\ ~tasks[t].released /\ tasks[t].pc \notin {"done", "panicked"}

ReasonOf(msg) == IF msg = <<>> THEN "none" ELSE msg[1]

\* The checks the matched flow's configuration turns on.
EnabledChecks(tr) ==
    {c \in {"cooldown"} : tr.cooldownMs > 0}
    \cup {c \in {"usage"} : tr.usageLimit > 0}
    \cup {c \in {"exclusion"} : tr.excludesFlows # {}}

CheckOrder == <<"cooldown", "usage", "exclusion">>

CheckReason(c) ==
    CASE c = "cooldown" -> "Cooldown active"
      [] c = "usage" -> "Usage limit reached"
      [] c = "exclusion" -> "Mutually exclusive flow already executed"

\* Positions (in CheckOrder) of the enabled checks the task did not pass.
FailedAt(t) == {k \in 1..3 : CheckOrder[k] \in EnabledChecks(Trig(t)) \ tasks[t].passed}

FirstFailed(t) == CHOOSE k \in FailedAt(t) : \A m \in FailedAt(t) : k <= m

\* Rows of the given flows on the task's session that were there when the
\* task was spawned: left by earlier runs, or written by a task that had
\* already returned.
ExistingAtStart(t, flow_ids) ==
    {i \in RowsOf(tasks[t].session, flow_ids) :
        \/ executions[i].task = 0
        \/ (executions[i].task < t /\ executions[i].task \notin tasks[t].overlap)}

\* The task ended with exactly one row, a FAILED one, carrying one of `reasons`.
OneFailedRow(t, reasons) ==
    /\ tasks[t].execId = 0
    /\ Cardinality(RowsBy(t)) = 1
    /\ \A i \in RowsBy(t) :
          /\ executions[i].insertedAs = "FAILED"
          /\ executions[i].status = "FAILED"
          /\ executions[i].error = tasks[t].msg
          /\ ReasonOf(executions[i].error) \in reasons

\* Nothing was scheduled for the task's event.
NothingScheduled(t) ==
    ~tasks[t].scheduled /\ \A j \in jobs : executions[j.exec].task # t

\* C1: at every instant at most one task per (session, flow) is between
\* its successful lock acquisition and its lock release.
C1_SingleFlight ==
    \A t1 \in TaskIds : \A t2 \in TaskIds :
        (t1 # t2 /\ Holding(t1) /\ Holding(t2)) => KeyOf(t1) # KeyOf(t2)

\* C2: an event inserts at most one Execution row; an admission that ran
\* to its end inserted exactly one: a RUNNING row when every enabled check
\* passed, else a FAILED row carrying the reason of the first failing check
\* in the order cooldown, usage limit, exclusion.
C2_OneRowPerEvent ==
    \A t \in TaskIds :
        /\ Cardinality(RowsBy(t)) <= 1
        /\ (~tasks[t].acquired) => RowsBy(t) = {}
        /\ (Finished(t) /\ tasks[t].acquired) =>
              /\ Cardinality(RowsBy(t)) = 1
              /\ \A i \in RowsBy(t) :
                    IF FailedAt(t) = {}
                    THEN /\ executions[i].insertedAs = "RUNNING"
                         /\ executions[i].error = <<>>
                         /\ tasks[t].execId = i
                    ELSE /\ executions[i].insertedAs = "FAILED"
                         /\ ReasonOf(executions[i].error) = CheckReason(CheckOrder[FirstFailed(t)])
                         /\ \A k \in FailedAt(t) : k > FirstFailed(t) => CheckOrder[k] \notin tasks[t].passed
                         /\ tasks[t].execId = 0

C2_Witness ==
    \E t \in TaskIds :
        /\ Finished(t) /\ tasks[t].acquired
        /\ tasks[t].passed # {} /\ FailedAt(t) # {}
        /\ Cardinality(RowsBy(t)) = 1

\* The cooldown condition as the claim states it: the most recent execution
\* of (session, flow) started less than cooldownMs ago.
C3_CooldownActive(t) ==
    /\ Trig(t).cooldownMs > 0
    /\ \E i \in RowsOf(tasks[t].session, {Trig(t).flowId}) :
          /\ \A j \in RowsOf(tasks[t].session, {Trig(t).flowId}) :
                executions[j].startedAt <= executions[i].startedAt
          /\ now - executions[i].startedAt < Trig(t).cooldownMs

\* C3: an admission that reaches the cooldown check is rejected there
\* exactly when cooldownMs > 0 and the most recent execution of (session,
\* flow) started less than cooldownMs ago (never when cooldownMs = 0 or no
\* prior execution exists); the rejected admission creates no RUNNING row,
\* writes one FAILED row with a 'Cooldown active' reason, releases the lock
\* and schedules nothing.
C3_Cooldown ==
    /\ [][\A t \in TaskIds :
            (tasks[t].pc = "cooldown" /\ tasks'[t].pc # "cooldown") =>
                ((tasks'[t].pc = "failrow" /\ ReasonOf(tasks'[t].msg) = "Cooldown active")
                    <=> C3_CooldownActive(t))]_vars
    /\ [](\A t \in TaskIds :
            ReasonOf(tasks[t].msg) = "Cooldown active" =>
                /\ Trig(t).cooldownMs > 0
                /\ tasks[t].execId = 0
                /\ NothingScheduled(t)
                /\ Finished(t) => (tasks[t].released /\ OneFailedRow(t, {"Cooldown active"})))

\* The usage condition as the claim states it.
C4_LimitReached(t) ==
    /\ Trig(t).usageLimit > 0
    /\ Cardinality(RowsOf(tasks[t].session, {Trig(t).flowId})) >= Trig(t).usageLimit

\* C4 as stated: whenever usageLimit > 0 and the executions of (session,
\* flow) already number usageLimit or more, the admission writes a FAILED
\* row with a 'Usage limit reached' reason and no RUNNING row.
C4_Original ==
    \A t \in TaskIds :
        ( /\ Finished(t) /\ tasks[t].acquired
          /\ Trig(t).usageLimit > 0
          /\ Cardinality(ExistingAtStart(t, {Trig(t).flowId})) >= Trig(t).usageLimit )
        => OneFailedRow(t, {"Usage limit reached"})

\* C4 amended: the usage check, which runs when the cooldown check did not
\* reject, rejects exactly when usageLimit > 0 and the executions of
\* (session, flow), of any status, number usageLimit or more; the rejected
\* admission creates no RUNNING row and writes one FAILED row with a 'Usage
\* limit reached' reason.  An admission that starts with the limit reached
\* never creates a RUNNING row: its FAILED row carries 'Usage limit reached'
\* or, when the cooldown check rejected first, 'Cooldown active'.
C4_UsageLimit ==
    /\ [][\A t \in TaskIds :
            (tasks[t].pc = "usage" /\ tasks'[t].pc # "usage") =>
                ((tasks'[t].pc = "failrow" /\ ReasonOf(tasks'[t].msg) = "Usage limit reached")
                    <=> C4_LimitReached(t))]_vars
    /\ [](\A t \in TaskIds :
            /\ ReasonOf(tasks[t].msg) = "Usage limit reached" =>
                  /\ Trig(t).usageLimit > 0
                  /\ tasks[t].execId = 0
                  /\ Finished(t) => OneFailedRow(t, {"Usage limit reached"})
            /\ ( /\ Finished(t) /\ tasks[t].acquired
                 /\ Trig(t).usageLimit > 0
                 /\ Cardinality(ExistingAtStart(t, {Trig(t).flowId})) >= Trig(t).usageLimit )
               => OneFailedRow(t, {"Usage limit reached", "Cooldown active"}))

C4_Witness ==
    \E t \in TaskIds :
        /\ Finished(t) /\ ReasonOf(tasks[t].msg) = "Usage limit reached"
        /\ Cardinality(ExistingAtStart(t, {Trig(t).flowId})) >= Trig(t).usageLimit

\* The exclusion condition as the claim states it.
C5_Conflict(t) ==
    \E i \in 1..Len(executions) :
        /\ executions[i].sessionId = tasks[t].session
        /\ executions[i].flowId \in Trig(t).excludesFlows

\* C5 as stated: whenever an execution of an excluded flow already exists
\* on the session, the admission writes one FAILED row with the reason
\* 'Mutually exclusive flow already executed' and no RUNNING row.
C5_Original ==
    \A t \in TaskIds :
        ( /\ Finished(t) /\ tasks[t].acquired
          /\ ExistingAtStart(t, Trig(t).excludesFlows) # {} )
        => OneFailedRow(t, {"Mutually exclusive flow already executed"})

\* C5 amended: the exclusion check, which runs when neither the cooldown
\* nor the usage check rejected, rejects exactly when an execution of a
\* flow in excludesFlows exists on the session; the rejected admission
\* creates no RUNNING row and writes one FAILED row with the reason
\* 'Mutually exclusive flow already executed'.  An admission that starts
\* with such an execution present never creates a RUNNING row: its FAILED
\* row carries that reason or the reason of the earlier check that rejected.
C5_Exclusion ==
    /\ [][\A t \in TaskIds :
            (tasks[t].pc = "exclusion" /\ tasks'[t].pc # "exclusion") =>
                ((/\ tasks'[t].pc = "failrow"
                  /\ ReasonOf(tasks'[t].msg) = "Mutually exclusive flow already executed")
                    <=> C5_Conflict(t))]_vars
    /\ [](\A t \in TaskIds :
            /\ ReasonOf(tasks[t].msg) = "Mutually exclusive flow already executed" =>
                  /\ Trig(t).excludesFlows # {}
                  /\ tasks[t].execId = 0
                  /\ Finished(t) => OneFailedRow(t, {"Mutually exclusive flow already executed"})
            /\ ( /\ Finished(t) /\ tasks[t].acquired
                 /\ ExistingAtStart(t, Trig(t).excludesFlows) # {} )
               => OneFailedRow(t, {"Mutually exclusive flow already executed",
                                   "Usage limit reached", "Cooldown active"}))

C5_Witness ==
    \E t \in TaskIds :
        /\ Finished(t)
        /\ ReasonOf(tasks[t].msg) = "Mutually exclusive flow already executed"
        /\ ExistingAtStart(t, Trig(t).excludesFlows) # {}

\* C6: a task whose SET NX finds the key present returns without writing
\* any Execution row, without scheduling anything and without deleting the
\* key: its step changes neither the lock, the table, the timers nor the
\* outbound stream, and it is over.
C6_DeniedIsSilent ==
    /\ [][\A t \in TaskIds :
            (tasks[t].pc = "lock" /\ tasks'[t].pc # "lock" /\ lock[KeyOf(t)] # -1) =>
                /\ ~tasks'[t].acquired
                /\ tasks'[t].pc = "done"
                /\ UNCHANGED <<lock, executions, jobs, outbound>>]_vars
    /\ [](\A t \in TaskIds :
            (tasks[t].trigger # <<>> /\ ~tasks[t].acquired) =>
                /\ RowsBy(t) = {}
                /\ ~tasks[t].released
                /\ NothingScheduled(t)
                /\ tasks[t].pc \in {"lock", "done"})

C6_Witness ==
    \E t \in TaskIds : \E h \in TaskIds :
        /\ Denied(t) /\ RowsBy(t) = {}
        /\ Holding(h) /\ KeyOf(h) = KeyOf(t) /\ lock[KeyOf(t)] # -1

\* Two tasks handle identical events.
Identical(t1, t2) ==
    /\ t1 # t2
    /\ tasks[t1].trigger # <<>>
    /\ tasks[t1].session = tasks[t2].session
    /\ tasks[t1].content = tasks[t2].content
    /\ tasks[t1].fromMe = tasks[t2].fromMe

\* C7: of two identical events handled concurrently, the one that asks for
\* the lock while the other is inside admission (between its acquisition
\* and its release) is denied, writes no row and is dropped, so the pair
\* creates one RUNNING execution.
C7_ConcurrentIdentical ==
    [][\A t1 \in TaskIds : \A t2 \in TaskIds :
          ( /\ Identical(t1, t2) /\ Holding(t1)
            /\ tasks[t2].pc = "lock" /\ tasks'[t2].pc # "lock" )
          => /\ ~tasks'[t2].acquired
             /\ tasks'[t2].pc = "done"
             /\ executions' = executions]_vars

\* C8: a task that acquired the lock has released it on every exit:
\* admitted, rejected, database error, panic.
C8_ReleasedOnEveryExit ==
    \A t \in TaskIds :
        (tasks[t].acquired /\ tasks[t].pc \in {"done", "panicked"}) => tasks[t].released

C10_Original ==
    \A j \in jobs :
        (j.pc = "sleep" /\ executions[j.exec].status = "RUNNING") =>
            executions[j.exec].currentStep = j.order

\* C10 amended: a RUNNING execution's currentStep is the order of the most
\* recently dispatched step (0 before any dispatch): it is set to k right
\* before the processor of step k runs and is not advanced when the
\* processor returns, so it is still k while the scheduler looks up and
\* sleeps for step k+1.
C10_CurrentStepIsLastDispatched ==
    \A j \in jobs :
        executions[j.exec].status = "RUNNING" =>
            executions[j.exec].currentStep =
                IF j.pc = "process" THEN j.order
                ELSE IF j.order = 0 THEN 0
                ELSE j.order - 1

C10_Witness ==
    \E j \in jobs :
        /\ j.pc = "sleep" /\ j.order = 1
        /\ executions[j.exec].status = "RUNNING"
        /\ executions[j.exec].currentStep = 0
        /\ \E i \in 1..Len(outbound) :
              outbound[i].execution_id = j.exec /\ outbound[i].step_order = 0

ExecIds == 1..Len(executions)

JobsOf(x) == {j \in jobs : j.exec = x}

\* Positions of the processor invocations of steps dispatched while the
\* execution's status was not RUNNING.
StaleInvocations(x) ==
    {i \in 1..Len(executions[x].invoked) : executions[x].invoked[i].status # "RUNNING"}

\* C11 as stated: no currentStep update and no processor invocation is
\* made for an execution that is not RUNNING at the moment of dispatch.
C11_Original ==
    /\ \A x \in ExecIds : StaleInvocations(x) = {}
    /\ \A j \in jobs : j.pc = "process" => j.seen = "RUNNING"

\* C11 amended: the scheduler reads the status in schedule_step, before
\* the sleep, and not again at dispatch.  A schedule hop that finds the
\* execution not RUNNING ends there: it spawns no timer and writes nothing,
\* so no step is scheduled for an execution read as COMPLETED or FAILED.
\* A step whose hop had passed the status check is still dispatched
\* (currentStep update and processor invocation) when the status changes
\* before its timer fires, and it is the last one.
C11_NoScheduleWhenNotRunning ==
    /\ [][\A j \in jobs :
            ( /\ j.pc = "sched_fetch" /\ j \notin jobs'
              /\ executions[j.exec].status # "RUNNING" )
            => /\ jobs' = jobs \ {j}
               /\ executions' = executions
               /\ outbound' = outbound]_vars
    /\ [](\A x \in ExecIds :
            /\ StaleInvocations(x) # {} =>
                  \A j \in JobsOf(x) : j.pc = "sched_fetch"
            /\ \A i \in StaleInvocations(x) : i = Len(executions[x].invoked))

C11_Witness ==
    \E x \in ExecIds :
        /\ executions[x].status \in StopStatuses
        /\ executions[x].invoked # <<>>
        /\ StaleInvocations(x) = {}
        /\ JobsOf(x) = {}

\* C12: after an external actor has set a RUNNING execution's status to
\* a non-RUNNING value, at most one further step of the execution is
\* dispatched, and the schedule hop after it drops: no later step is
\* scheduled, so the execution is left with no scheduler task.
C12_AtMostOneStaleStep ==
    \A x \in ExecIds :
        /\ Cardinality(StaleInvocations(x)) <= 1
        /\ Cardinality(JobsOf(x)) <= 1
        /\ \A j \in JobsOf(x) :
              /\ (j.pc = "process" /\ j.seen # "RUNNING") => StaleInvocations(x) = {}
              /\ (StaleInvocations(x) # {}) =>
                    /\ j.pc = "sched_fetch"
                    /\ j.order = executions[x].invoked[Len(executions[x].invoked)].order + 1

C12_Witness ==
    \E x \in ExecIds :
        /\ executions[x].status \in StopStatuses
        /\ Cardinality(StaleInvocations(x)) = 1
        /\ JobsOf(x) = {}
        /\ Len(executions[x].invoked) < Cardinality({i \in 1..Len(StepTable) :
                                              StepTable[i].flowId = executions[x].flowId})

\* The flow has a step with this order.
HasStep(flow_id, k) ==
    \E i \in 1..Len(StepTable) : StepTable[i].flowId = flow_id /\ StepTable[i].order = k

\* C13: when schedule(executionId, k) runs for a RUNNING execution whose
\* flow has no step with order k (end of flow, empty flow, gap at k), the
\* execution becomes COMPLETED with completedAt set and is left without a
\* scheduler task; the steps dispatched for a COMPLETED execution are the
\* contiguous run of orders from 0, none of them beyond the first missing
\* order.
C13_CompletedAtMissingStep ==
    /\ [][/\ \A j \in jobs :
               ( /\ j.pc = "sched_steps" /\ j \notin jobs'
                 /\ ~HasStep(executions[j.exec].flowId, j.order) )
               => /\ executions'[j.exec].status = "COMPLETED"
                  /\ executions'[j.exec].completedAt = now
                  /\ \A k \in jobs' : k.exec # j.exec
          /\ \A t \in TaskIds :
               ( /\ tasks[t].pc = "sched_steps" /\ tasks'[t].pc # "sched_steps"
                 /\ ~HasStep(Trig(t).flowId, 0) )
               => /\ executions'[tasks[t].execId].status = "COMPLETED"
                  /\ executions'[tasks[t].execId].completedAt = now
                  /\ \A k \in jobs' : k.exec # tasks[t].execId]_vars
    /\ [](\A x \in ExecIds :
            executions[x].status = "COMPLETED" =>
                /\ executions[x].completedAt # -1
                /\ JobsOf(x) = {}
                /\ \A i \in 1..Len(executions[x].invoked) :
                      executions[x].invoked[i].order = i - 1
                /\ ~HasStep(executions[x].flowId, Len(executions[x].invoked)))

C13_Witness ==
    \E x \in ExecIds :
        /\ executions[x].status = "COMPLETED"
        /\ Len(executions[x].invoked) = 1
        /\ \E k \in 2..3 : HasStep(executions[x].flowId, k)
        /\ \E y \in ExecIds :
              executions[y].status = "COMPLETED" /\ executions[y].invoked = <<>>

InvokedOrders(x) == [i \in 1..Len(executions[x].invoked) |-> executions[x].invoked[i].order]

\* C14 as stated: within one execution the processor invocations happen
\* in strictly ascending step order.
C14_Original ==
    \A x \in ExecIds :
        \A i \in 1..Len(InvokedOrders(x)) : \A k \in 1..Len(InvokedOrders(x)) :
            i < k => InvokedOrders(x)[i] < InvokedOrders(x)[k]

\* C14 amended: within one execution and one run of the process, the
\* processor invocations happen in strictly ascending step order; across
\* a restart the order never decreases, and the first invocation after
\* the restart repeats the step that was dispatched last.  An execution
\* has at most one scheduler task at any time, so the processor of a step
\* is never invoked before the previous invocation has returned.
C14_AscendingWithinRun ==
    \A x \in ExecIds :
        /\ Cardinality(JobsOf(x)) <= 1
        /\ \A i \in 1..Len(InvokedOrders(x)) : \A k \in 1..Len(InvokedOrders(x)) :
              i < k =>
                /\ InvokedOrders(x)[i] <= InvokedOrders(x)[k]
                /\ executions[x].invoked[i].boot <= executions[x].invoked[k].boot
                /\ executions[x].invoked[i].boot = executions[x].invoked[k].boot
                      => InvokedOrders(x)[i] < InvokedOrders(x)[k]

C14_Witness ==
    \E x \in ExecIds :
        /\ Len(InvokedOrders(x)) >= 3
        /\ InvokedOrders(x)[1] = InvokedOrders(x)[2]
        /\ InvokedOrders(x)[2] < InvokedOrders(x)[3]

\* C15: a restart reschedules exactly the RUNNING executions, each from
\* its persisted currentStep: the execution gets one timer for the step of
\* that order, or becomes COMPLETED when its flow has no such step; rows
\* that are COMPLETED or FAILED are left alone and get no timer.  Within
\* one run of the process no step is dispatched twice.
C15_RecoveryReschedulesRunning ==
    /\ [][boots' = boots + 1 =>
            \A x \in ExecIds :
                LET row == executions[x]
                    mine == {j \in jobs' : j.exec = x}
                IN  IF row.status # "RUNNING"
                    THEN executions'[x] = row /\ mine = {}
                    ELSE IF HasStep(row.flowId, row.currentStep)
                    THEN /\ executions'[x] = row
                         /\ Cardinality(mine) = 1
                         /\ \A j \in mine : j.order = row.currentStep /\ j.pc = "sleep"
                    ELSE /\ executions'[x] = [row EXCEPT !.status = "COMPLETED",
                                                          !.completedAt = now]
                         /\ mine = {}]_vars
    /\ [](\A x \in ExecIds :
            \A i \in 1..Len(executions[x].invoked) :
               \A k \in 1..Len(executions[x].invoked) :
                  ( /\ i # k
                    /\ executions[x].invoked[i].boot = executions[x].invoked[k].boot )
                  => executions[x].invoked[i].order # executions[x].invoked[k].order)

\* After a restart: a RUNNING execution whose last dispatched step has
\* been dispatched again, next to a FAILED row without a timer.
C15_Witness ==
    /\ boots = 1
    /\ \E x \in ExecIds :
          /\ executions[x].status = "RUNNING"
          /\ \E i \in 1..Len(executions[x].invoked) :
                \E k \in 1..Len(executions[x].invoked) :
                   /\ executions[x].invoked[i].boot = 0
                   /\ executions[x].invoked[k].boot = 1
                   /\ executions[x].invoked[k].order = executions[x].invoked[i].order
                   /\ executions[x].invoked[k].order = executions[x].currentStep
    /\ \E y \in ExecIds : executions[y].status = "FAILED" /\ JobsOf(y) = {}

\* Orders of the contiguous run of steps of a flow, from order 0.
ContiguousRun(flow_id) ==
    {k \in 0..Len(StepTable) : \A i \in 0..k : HasStep(flow_id, i)}

\* C16: across crashes and restarts, every step of the contiguous run of
\* a flow has been dispatched at least once when the execution is
\* COMPLETED, and the dispatched orders start at 0 and never jump over an
\* order.
C16_AtLeastOnce ==
    \A x \in ExecIds :
        /\ executions[x].status = "COMPLETED" =>
              \A k \in ContiguousRun(executions[x].flowId) :
                  \E i \in 1..Len(InvokedOrders(x)) : InvokedOrders(x)[i] = k
        /\ Len(InvokedOrders(x)) > 0 => InvokedOrders(x)[1] = 0
        /\ \A i \in 2..Len(InvokedOrders(x)) :
              InvokedOrders(x)[i] <= InvokedOrders(x)[i - 1] + 1

\* An execution of F1 completed after a crash between the currentStep
\* update of a step and its processor call.
C16_Witness ==
    \E x \in ExecIds :
        /\ executions[x].status = "COMPLETED"
        /\ Len(InvokedOrders(x)) = Cardinality(ContiguousRun(executions[x].flowId))
        /\ Len(InvokedOrders(x)) >= 3
        /\ \E i \in 1..Len(InvokedOrders(x)) :
              i > 1 /\ executions[x].invoked[i].boot = 1 /\ executions[x].invoked[i - 1].boot = 0

\* The jobs that leave the processor call in the step.
Returned == {j \in jobs : j.pc = "process" /\ j \notin jobs'}

LastInvocation(row) == row.invoked[Len(row.invoked)]

\* C17 as stated: when the processor of step k returns, the scheduler's
\* task goes on to schedule(executionId, k+1) whatever the processor did,
\* the status stays RUNNING, and after an error the row's error holds the
\* message of step k.
C17_Original ==
    [][\A j \in Returned :
          /\ \E n \in jobs' : n.exec = j.exec /\ n.pc = "sched_fetch" /\ n.order = j.order + 1
          /\ executions'[j.exec].status = "RUNNING"
          /\ LastInvocation(executions'[j.exec]).result = "Err"
                => executions'[j.exec].error = <<"Step error", j.order>>]_vars

\* C17 amended: when the processor of step k returns, the scheduler's
\* task goes on to schedule(executionId, k+1) whatever the processor did
\* and the status stays RUNNING; after an error the message of step k is
\* written to the row's error, and the row's error is left as it was when
\* that write fails; without an error the row's error is not touched.
C17_AlwaysAdvances ==
    [][\A j \in Returned :
          /\ \E n \in jobs' : n.exec = j.exec /\ n.pc = "sched_fetch" /\ n.order = j.order + 1
          /\ Cardinality({n \in jobs' : n.exec = j.exec}) = 1
          /\ executions'[j.exec].status = "RUNNING"
          /\ executions'[j.exec].error \in
                IF LastInvocation(executions'[j.exec]).result = "Err"
                THEN {<<"Step error", j.order>>, executions[j.exec].error}
                ELSE {executions[j.exec].error}]_vars

\* Step 1 of F1 failed after step 0 had emitted; the message is stored,
\* the execution is RUNNING and its task is about to schedule step 2.
C17_Witness ==
    \E x \in ExecIds :
        /\ executions[x].status = "RUNNING"
        /\ executions[x].error = <<"Step error", 1>>
        /\ Len(executions[x].invoked) = 2
        /\ LastInvocation(executions[x]).result = "Err"
        /\ \E i \in 1..Len(outbound) : outbound[i].execution_id = x
        /\ \E n \in jobs : n.exec = x /\ n.pc = "sched_fetch" /\ n.order = 2

\* C19: a RUNNING execution keeps a pending scheduling task (the
\* admission's schedule_step call, a timer, or a hop of the scheduler's
\* task) when a database statement of a scheduler hop fails.
C19_KeepsPendingTask ==
    \A x \in ExecIds :
        executions[x].status = "RUNNING" =>
            \/ JobsOf(x) # {}
            \/ \E t \in TaskIds :
                  tasks[t].execId = x /\ tasks[t].pc \in {"sched_fetch", "sched_steps"}

\* Orders of the steps of the contiguous run of an execution's flow whose
\* step produces a record: on a WHATSAPP session, a TEXT step with
\* content or a media step with a mediaUrl.
EmittingOrders(x) ==
    {k \in ContiguousRun(executions[x].flowId) :
        \E i \in 1..Len(StepTable) :
            /\ StepTable[i].flowId = executions[x].flowId
            /\ StepTable[i].order = k
            /\ SessionTable[executions[x].sessionId].platform = "WHATSAPP"
            /\ \/ StepTable[i].type = "TEXT" /\ StepTable[i].content # <<>>
               \/ StepTable[i].type \in {"IMAGE", "AUDIO", "PTT"} /\ StepTable[i].mediaUrl # <<>>}

RecordsOf(x, k) ==
    {i \in 1..Len(outbound) : outbound[i].execution_id = x /\ outbound[i].step_order = k}

CompletedWithRecords(x) ==
    /\ x \in ExecIds
    /\ executions[x].status = "COMPLETED"
    /\ executions[x].completedAt # -1
    /\ \A k \in 0..Len(StepTable) :
          Cardinality(RecordsOf(x, k)) = IF k \in EmittingOrders(x) THEN 1 ELSE 0

\* C18: under fair scheduling, without crash, failure or external status
\* change, every RUNNING execution eventually is COMPLETED with
\* completedAt set and with exactly one outbound record of its own for
\* each emitting step of the contiguous run of its flow from order 0.
C18_EventuallyCompleted ==
    \A x \in 1..MaxEvents :
        (x \in ExecIds /\ executions[x].status = "RUNNING") ~> CompletedWithRecords(x)

\* A completed execution of F1: records for its steps 0 and 1, none for
\* the media step without mediaUrl.
C18_Witness ==
    \E x \in ExecIds :
        /\ CompletedWithRecords(x)
        /\ EmittingOrders(x) = {0, 1}
        /\ Len(executions[x].invoked) = 3

\* Contents that are empty after trimming.
BlankContents == { <<>>, <<" ">>, <<" ", " ">> }

\* Trigger lists find_match may be given: the rows of "Trigger" and two
\* rows with an empty keyword, in every selection.
EmptyKeywordTriggers ==
    << [TriggerTable[1] EXCEPT !.id = "e1", !.keyword = <<>>, !.matchType = "EXACT"],
       [TriggerTable[1] EXCEPT !.id = "e2", !.keyword = <<>>, !.matchType = "CONTAINS"] >>

TriggerLists ==
    LET all == TriggerTable \o EmptyKeywordTriggers
    IN  {SelectSeq(all, LAMBDA t : t.id \in S) : S \in SUBSET {all[i].id : i \in 1..Len(all)}}

FindMatchOnBlank ==
    \A c \in BlankContents : \A ts \in TriggerLists : find_match(c, ts) = <<>>

IsBlank(t) == trim(tasks[t].content) = <<>>

\* C20: the task of an event whose content is empty after trimming ends
\* at once: it matches no trigger, acquires no lock, inserts no row
\* (RUNNING or FAILED), schedules no step, and its arrival changes neither
\* the lock keys, the rows, the timers nor the outbound stream; find_match
\* returns none for such content for every list of triggers.
C20_BlankContentIsIgnored ==
    /\ [][\A t \in 1..Len(tasks') :
            (t > Len(tasks) /\ trim(tasks'[t].content) = <<>>) =>
                /\ tasks'[t].pc = "done"
                /\ UNCHANGED <<lock, executions, jobs, outbound>>]_vars
    /\ [](/\ FindMatchOnBlank
          /\ \A t \in TaskIds :
               IsBlank(t) =>
                  /\ tasks[t].trigger = <<>>
                  /\ tasks[t].pc = "done"
                  /\ ~tasks[t].acquired /\ ~tasks[t].released
                  /\ RowsBy(t) = {}
                  /\ NothingScheduled(t))

\* A blank event arrived while another event's task was holding its lock.
C20_Witness ==
    \E t \in TaskIds : \E h \in TaskIds :
        /\ IsBlank(t) /\ h < t
        /\ Holding(h) /\ lock[KeyOf(h)] # -1
        /\ \A i \in 1..Len(executions) : executions[i].task # t

\* The arguments and the result of the find_match call examined.
MatchContent == call.args[1]
MatchTriggers == call.args[2]
MatchNormalized == to_lowercase(trim(MatchContent))

ExactHits ==
    {i \in 1..Len(MatchTriggers) :
        /\ MatchTriggers[i].matchType = "EXACT"
        /\ to_lowercase(MatchTriggers[i].keyword) = MatchNormalized}

ContainsHits ==
    {i \in 1..Len(MatchTriggers) :
        /\ MatchTriggers[i].matchType = "CONTAINS"
        /\ \E a \in 0..Len(MatchNormalized) : \E b \in a..Len(MatchNormalized) :
              SubSeq(MatchNormalized, a + 1, b) = to_lowercase(MatchTriggers[i].keyword)}

First(S) == CHOOSE i \in S : \A k \in S : i <= k

Reference ==
    IF ExactHits # {} THEN <<MatchTriggers[First(ExactHits)]>>
    ELSE IF ContainsHits # {} THEN <<MatchTriggers[First(ContainsHits)]>>
    ELSE <<>>

EligibleTriggers(session_id, from_me) ==
    {i \in 1..Len(TriggerTable) :
        /\ TriggerTable[i].isActive
        /\ IF from_me THEN TriggerTable[i].scope \in {"OUTGOING", "BOTH"}
                      ELSE TriggerTable[i].scope \in {"INCOMING", "BOTH"}
        /\ \/ TriggerTable[i].sessionId = session_id
           \/ /\ TriggerTable[i].sessionId = "NULL"
              /\ TriggerTable[i].botId = SessionTable[session_id].botId}

\* C23: every execution row created by admission, RUNNING or FAILED,
\* belongs to the session of its event and to the flow of a trigger that
\* is active, fits the event's direction and is scoped to the event's
\* session or to no session and the event's bot.
C23_RowsFromEligibleTriggers ==
    \A x \in ExecIds :
        executions[x].task # 0 =>
            LET t == executions[x].task
            IN  /\ executions[x].sessionId = tasks[t].session
                /\ \E i \in EligibleTriggers(tasks[t].session, tasks[t].fromMe) :
                      /\ TriggerTable[i].flowId = executions[x].flowId
                      /\ TriggerTable[i].keyword = executions[x].trigger
                      /\ TriggerTable[i].id = Trig(t).id

\* An outgoing "oh" on s2 opened F1 through the trigger scoped to s2,
\* which an event on s1 cannot use.
C23_Witness ==
    \E x \in ExecIds :
        /\ executions[x].task # 0
        /\ executions[x].sessionId = "s2"
        /\ executions[x].flowId = "F1"
        /\ tasks[executions[x].task].fromMe
        /\ Trig(executions[x].task).id = "t6"

\* The execute_step call examined found its step, execution and session.
RowsFound ==
    /\ call.fn = "execute_step"
    /\ call.args.step # <<>> /\ call.args.execution # <<>> /\ call.args.session # <<>>

CallStep == call.args.step[1]
CallSession == call.args.session[1]

\* The record a WHATSAPP session gets for a payload.
RecordWith(payload) ==
    [bot_id |-> CallSession.botId, target |-> CallSession.identifier,
     execution_id |-> call.args.execution_id, step_order |-> call.args.step_order,
     payload |-> payload]

NullPayload == [text |-> <<>>, image |-> <<>>, audio |-> <<>>, caption |-> <<>>, ptt |-> <<>>]

\* C24: on a WHATSAPP session the record of a TEXT step with content has
\* text = content; of an IMAGE step with mediaUrl, image = mediaUrl and
\* caption = content; of an AUDIO step with mediaUrl, audio = mediaUrl and
\* ptt = false; of a PTT step with mediaUrl, audio = mediaUrl and
\* ptt = true; every other payload field is null, and the record carries
\* the session's botId and identifier and the given execution id and step
\* order.
C24_PayloadTable ==
    (RowsFound /\ CallSession.platform = "WHATSAPP") =>
        /\ (CallStep.type = "TEXT" /\ CallStep.content # <<>>) =>
              call.result = <<RecordWith([NullPayload EXCEPT !.text = CallStep.content])>>
        /\ (CallStep.type = "IMAGE" /\ CallStep.mediaUrl # <<>>) =>
              call.result = <<RecordWith([NullPayload EXCEPT !.image = CallStep.mediaUrl,
                                                             !.caption = CallStep.content])>>
        /\ (CallStep.type = "AUDIO" /\ CallStep.mediaUrl # <<>>) =>
              call.result = <<RecordWith([NullPayload EXCEPT !.audio = CallStep.mediaUrl,
                                                             !.ptt = <<FALSE>>])>>
        /\ (CallStep.type = "PTT" /\ CallStep.mediaUrl # <<>>) =>
              call.result = <<RecordWith([NullPayload EXCEPT !.audio = CallStep.mediaUrl,
                                                             !.ptt = <<TRUE>>])>>

\* An AUDIO step with a mediaUrl and a content, sent with ptt = false and
\* without text or caption, under the legacy step order -1.
C24_Witness ==
    /\ RowsFound
    /\ CallSession.platform = "WHATSAPP"
    /\ CallStep.type = "AUDIO"
    /\ CallStep.content # <<>>
    /\ call.args.step_order = -1
    /\ Len(call.result) = 1
    /\ call.result[1].payload.ptt = <<FALSE>>
    /\ call.result[1].payload.text = <<>>
    /\ call.result[1].payload.audio = CallStep.mediaUrl

\* C25: one call of execute_step appends at most one record, and one only
\* if the step, the execution and the session exist, the platform is
\* WHATSAPP and one of text, image, audio is set; it appends nothing for
\* another platform, for VIDEO and DOCUMENT steps, for IMAGE, AUDIO and
\* PTT steps without mediaUrl, and when a row is missing.
C25_AtMostOneRecord ==
    call.fn = "execute_step" =>
        /\ Len(call.result) <= 1
        /\ Len(call.result) = 1 =>
              /\ RowsFound
              /\ CallSession.platform = "WHATSAPP"
              /\ \/ call.result[1].payload.text # <<>>
                 \/ call.result[1].payload.image # <<>>
                 \/ call.result[1].payload.audio # <<>>
        /\ ~RowsFound => call.result = <<>>
        /\ ( /\ RowsFound
             /\ \/ CallSession.platform # "WHATSAPP"
                \/ CallStep.type \in {"VIDEO", "DOCUMENT"}
                \/ CallStep.type \in {"IMAGE", "AUDIO", "PTT"} /\ CallStep.mediaUrl = <<>> )
           => call.result = <<>>

\* A TEXT step with content on a TELEGRAM session: nothing is appended.
C25_Witness ==
    /\ RowsFound
    /\ CallSession.platform = "TELEGRAM"
    /\ CallStep.type = "TEXT"
    /\ CallStep.content # <<>>
    /\ call.result = <<>>

\* The call examined is a window test.
IsWindowCall == call.fn = "window"

WindowStart == to_minutes(call.args.startTime)

WindowEnd == to_minutes(call.args.endTime)

\* The window of the call is 22:00-06:00.
NightWindow == call.args.startTime = Time2200 /\ call.args.endTime = Time0600

\* C26: a branch whose start and end minutes parsed matches at the minute
\* of day now iff start < end and start <= now < end, or start >= end and
\* (now >= start or now < end); the window 22:00-06:00 matches at 23:30
\* and does not match at 14:00.
C26_WindowTest ==
    (IsWindowCall /\ WindowStart # <<>> /\ WindowEnd # <<>>) =>
        LET start == WindowStart[1]
            end == WindowEnd[1]
            current == call.args.current_minutes
        IN  /\ call.result <=>
                  \/ start < end /\ start <= current /\ current < end
                  \/ start >= end /\ (current >= start \/ current < end)
            /\ (NightWindow /\ current = 23 * 60 + 30) => call.result
            /\ (NightWindow /\ current = 14 * 60) => ~call.result

\* The window 22:00-06:00 was tested at 23:30 and matched.
C26_Witness ==
    /\ IsWindowCall
    /\ NightWindow
    /\ WindowStart = <<1320>>
    /\ WindowEnd = <<360>>
    /\ call.args.current_minutes = 1410
    /\ call.result

\* The execute_step call examined ran the CONDITIONAL_TIME arm on metadata
\* that deserialized, for a WHATSAPP session.
IsConditionalCall ==
    /\ RowsFound
    /\ CallSession.platform = "WHATSAPP"
    /\ CallStep.type = "CONDITIONAL_TIME"
    /\ CallStep.metadata # <<>>
    /\ CallStep.metadata[1].valid

CallBranches == CallStep.metadata[1].branches

CallFallback == CallStep.metadata[1].fallback

\* The positions of the branches whose window holds the call's minute.
MatchingBranches ==
    {i \in 1..Len(CallBranches) : BranchMatches(CallBranches[i], call.args.current_minutes)}

\* The branch or fallback selected: <<>> when there is none.
Selected ==
    IF MatchingBranches # {}
    THEN <<CallBranches[First(MatchingBranches)]>>
    ELSE CallFallback

\* A branch that yields no payload: of unknown type, a media branch
\* without mediaUrl, or a TEXT branch without content.
YieldsNothing(b) ==
    \/ b.type \notin {"TEXT", "IMAGE", "AUDIO"}
    \/ b.type \in {"IMAGE", "AUDIO"} /\ b.mediaUrl = <<>>
    \/ b.type = "TEXT" /\ b.content = <<>>

\* C27: the payload of a CONDITIONAL_TIME step is projected from the first
\* branch in list order whose window matches, and from nothing else; from
\* the fallback iff no branch matched and a fallback is present; a matched
\* branch that yields no payload leaves the call without a record even
\* when a fallback is present; AUDIO in a branch or in the fallback sets
\* ptt to true.
C27_FirstBranchWins ==
    IsConditionalCall =>
        /\ Selected = <<>> => call.result = <<>>
        /\ Selected # <<>> =>
              LET b == Selected[1]
              IN  /\ YieldsNothing(b) <=> call.result = <<>>
                  /\ (b.type = "TEXT" /\ ~YieldsNothing(b)) =>
                        call.result = <<RecordWith([NullPayload EXCEPT !.text = b.content])>>
                  /\ (b.type = "IMAGE" /\ ~YieldsNothing(b)) =>
                        call.result = <<RecordWith([NullPayload EXCEPT !.image = b.mediaUrl,
                                                                       !.caption = b.content])>>
                  /\ (b.type = "AUDIO" /\ ~YieldsNothing(b)) =>
                        call.result = <<RecordWith([NullPayload EXCEPT !.audio = b.mediaUrl,
                                                                       !.ptt = <<TRUE>>])>>

\* Two branches match, the first is of an unknown type and a fallback is
\* present: nothing is sent.
C27_Witness ==
    /\ IsConditionalCall
    /\ Cardinality(MatchingBranches) = 2
    /\ CallBranches[1].type = "VIDEO"
    /\ CallBranches[2].type = "TEXT"
    /\ CallBranches[2].content # <<>>
    /\ CallFallback # <<>>
    /\ call.result = <<>>

\* C28: every entry the consumer-group read delivered is acknowledged once
\* the loop is through with the reply: with a valid payload, with a payload
\* that is not JSON of either variant, and without a string field
\* "payload"; no delivered entry stays pending.
C28_EveryEntryAcknowledged ==
    ingress.batch = <<>> => ingress.pending = {}

IsJitterCall == call.fn = "jitter"

\* The call's step has a delay and a percentage in their intended ranges.
JitterInRange ==
    /\ call.args.delayMs >= 0
    /\ call.args.jitterPct \in 0..100

\* C29: for delayMs >= 0 and jitterPct in 0..100, variance is
\* delayMs * jitterPct / 100 in integer arithmetic (100 * variance <=
\* delayMs * jitterPct < 100 * (variance + 1)), the jitter lies in
\* [-variance, variance], final_delay = max(0, delayMs + jitter), hence
\* 0 <= delayMs - variance <= final_delay <= delayMs + variance,
\* final_delay = delayMs when variance = 0, and nothing overflows.
C29_JitterBounds ==
    (IsJitterCall /\ JitterInRange) =>
        LET d == Wide(call.args.delayMs)
            product == WMul(d, call.args.jitterPct)
            v == call.result.variance
            j == call.args.jitter
            f == call.result.final_delay
        IN  /\ WLeq(WMul(v, 100), product)
            /\ WLess(product, WMul(WAdd(v, Wide(1)), 100))
            /\ WLeq(WNeg(v), j) /\ WLeq(j, v)
            /\ f = IF WLess(WAdd(d, j), WZero) THEN WZero ELSE WAdd(d, j)
            /\ WLeq(WZero, WAdd(d, WNeg(v)))
            /\ WLeq(WAdd(d, WNeg(v)), f)
            /\ WLeq(f, WAdd(d, v))
            /\ v = WZero => f = d
            /\ ~call.result.overflow

\* The largest 32-bit delay with jitterPct 100 and the largest jitter: the
\* sleep is twice the delay.
C29_Witness ==
    /\ IsJitterCall
    /\ call.args.delayMs = I32_MAX
    /\ call.args.jitterPct = 100
    /\ call.result.variance = Wide(I32_MAX)
    /\ call.args.jitter = call.result.variance
    /\ call.result.final_delay = [hi |-> 65535, lo |-> 65534]
    /\ ~call.result.overflow

\* Task t died with the process while it held the lock.
DiedHolding(t) ==
    /\ tasks[t].pc = "crashed"
    /\ tasks[t].acquired
    /\ ~tasks[t].released

\* The key's holder died without releasing it.
AbandonedKey(k) == \E t \in 1..Len(tasks) : DiedHolding(t) /\ KeyOf(t) = k

\* C30: a lock key never stays forever: whenever the key of a (session,
\* flow) pair is present, also after its holder died without releasing it,
\* it is absent at some later time (at the latest when its 30 s TTL runs
\* out); and the SET NX of an event that finds the key absent acquires the
\* lock.
C30_AbandonedLockExpires ==
    /\ \A k \in LockKeys : (lock[k] # -1) ~> (lock[k] = -1)
    /\ \A k \in LockKeys : (lock[k] # -1 /\ AbandonedKey(k)) ~> (lock[k] = -1)
    /\ [][\A t \in 1..Len(tasks) :
             (tasks[t].pc = "lock" /\ lock[KeyOf(t)] = -1 /\ tasks'[t].pc \notin {"lock", "crashed"})
                 => (tasks'[t].acquired /\ lock'[KeyOf(t)] = now + LOCK_TTL_SECS * 1000)]_vars

\* The first event's task died holding the lock, the key went with its TTL
\* and the second event of the same session and flow holds the lock.
C30_Witness ==
    /\ Len(tasks) = 2
    /\ DiedHolding(1)
    /\ KeyOf(2) = KeyOf(1)
    /\ tasks[2].acquired
    /\ tasks[2].txStart >= LOCK_TTL_SECS * 1000
    /\ lock[KeyOf(2)] # -1

\* The reader loop is at an EXECUTE_STEP entry and this step takes it off
\* the reply.
HandlesExecuteStep ==
    /\ ingress.batch # <<>>
    /\ Decode(CurrentEntry.value) = "EXECUTE_STEP"
    /\ ingress'.batch = Tail(ingress.batch)

\* C31: the EXECUTE_STEP path calls the processor once with step order -1
\* and does nothing else: at most one record is appended, it carries
\* step_order -1 and the entry's execution id, and the execution rows, the
\* lock keys, the admission tasks and the scheduler's timers stay as they
\* were.
C31_ExecuteStepOnlyEmits ==
    [][HandlesExecuteStep =>
          /\ Len(outbound') \in {Len(outbound), Len(outbound) + 1}
          /\ SubSeq(outbound', 1, Len(outbound)) = outbound
          /\ \A i \in (Len(outbound) + 1)..Len(outbound') :
                /\ outbound'[i].step_order = -1
                /\ outbound'[i].execution_id = CurrentEntry.value.doc.executionId
          /\ executions' = executions
          /\ lock' = lock
          /\ jobs' = jobs
          /\ tasks' = tasks]_vars

\* An EXECUTE_STEP entry for the finished execution 1 was handled: its
\* record is out with step_order -1, the row is still COMPLETED at step 0
\* and nothing is scheduled or locked.
C31_Witness ==
    /\ Len(outbound) = 1
    /\ outbound[1].step_order = -1
    /\ outbound[1].execution_id = 1
    /\ executions[1].status = "COMPLETED"
    /\ executions[1].currentStep = 0
    /\ jobs = {}
    /\ \A k \in LockKeys : lock[k] = -1
    /\ ingress.pending = {}

\* The most recent row of the task's (session, flow), of whatever status,
\* started less than cooldownMs ago.
RecentRow(t) ==
    /\ Trig(t).cooldownMs > 0
    /\ LastStartedAt(tasks[t].session, Trig(t).flowId) # -1
    /\ now - LastStartedAt(tasks[t].session, Trig(t).flowId) < Trig(t).cooldownMs

\* C32: the cooldown is measured from the most recent row of (session,
\* flow) whatever its status: an event whose admission reaches the cooldown
\* check less than cooldownMs after that row is rejected there and writes a
\* FAILED row started at the time of the rejection, which the next check
\* measures from; so events that follow each other within cooldownMs are
\* all rejected, however long ago the last admitted execution started.
C32_RejectionRestartsCooldown ==
    /\ [][\A t \in TaskIds :
            (tasks[t].pc = "cooldown" /\ RecentRow(t) /\ tasks'[t].pc # "cooldown")
                => (tasks'[t].pc = "failrow" /\ ReasonOf(tasks'[t].msg) = "Cooldown active")]_vars
    /\ [][\A t \in TaskIds :
            (tasks[t].pc = "failrow" /\ tasks'[t].pc # "failrow")
                => /\ Len(executions') = Len(executions) + 1
                   /\ executions'[Len(executions')].status = "FAILED"
                   /\ executions'[Len(executions')].startedAt = now]_vars

\* The rows of (session, flow) that were created as RUNNING.
AdmittedRows(session_id, flow_id) ==
    {i \in RowsOf(session_id, {flow_id}) : executions[i].insertedAs = "RUNNING"}

\* C33: for two flows that list each other in excludesFlows, no session
\* has admitted executions (rows created as RUNNING) of both, whatever the
\* interleaving of the events of the session.
C33_MutualExclusion ==
    \A s \in Sessions : \A f \in Flows : \A g \in Flows \ {f} :
        (g \in flowCfg[f].excludesFlows /\ f \in flowCfg[g].excludesFlows)
            => ~(AdmittedRows(s, f) # {} /\ AdmittedRows(s, g) # {})

\* C34: for a flow with usageLimit = N > 0 the number of admitted
\* executions (rows created as RUNNING) of a (session, flow) pair never
\* exceeds N, whatever the interleaving of the events of the pair.
C34_AdmittedWithinLimit ==
    \A s \in Sessions : \A f \in Flows :
        flowCfg[f].usageLimit > 0
            => Cardinality(AdmittedRows(s, f)) <= flowCfg[f].usageLimit

\* C35: a terminal status is absorbing: once an execution is COMPLETED or
\* FAILED no step changes its status; the scheduler's transition to
\* COMPLETED does not overwrite a FAILED written by an external actor
\* between the scheduler's read of the status and its update.
C35_TerminalIsAbsorbing ==
    [][\A x \in 1..Len(executions) :
          executions[x].status \in {"COMPLETED", "FAILED"}
              => executions'[x].status = executions[x].status]_vars

\* Task t executes its DEL in this step.
Releases(t) == tasks[t].pc = "release" /\ tasks'[t].pc = "done"

\* C36: a release only removes the lock its own admission acquired, never
\* a key another admission set after the first holder's TTL ran out.  A
\* key set by the admission of task t expires LOCK_TTL_SECS after its SET,
\* which precedes the begin of t's transaction: the key t deletes, if any,
\* expires no later than that after the begin.
C36_ReleaseOnlyOwnLock ==
    [][\A t \in TaskIds :
          (Releases(t) /\ lock[KeyOf(t)] # -1)
              => lock[KeyOf(t)] <= tasks[t].txStart + LOCK_TTL_SECS * 1000]_vars

\* The jobs that enter execute_and_advance in this step.
Dispatched == {j \in jobs' \ jobs : j.pc = "process"}

\* C37: an execution's currentStep never decreases.  It is 0 at creation;
\* it changes only when a step is dispatched, to the order of that step;
\* the hop after a dispatch of order k asks for order k + 1; recovery
\* asks for the persisted currentStep.  So over admissions, dispatches,
\* crashes and recoveries it is non-decreasing and is the order of the
\* most recently dispatched step (0 when none was dispatched).
C37_CurrentStepMonotone ==
    [][/\ \A x \in 1..Len(executions) :
             /\ executions'[x].currentStep >= executions[x].currentStep
             /\ executions'[x].currentStep # executions[x].currentStep
                   => \E j \in Dispatched : j.exec = x
       /\ \A x \in (Len(executions) + 1)..Len(executions') :
             executions'[x].insertedAs = "RUNNING" => executions'[x].currentStep = 0
       /\ \A j \in Dispatched : executions'[j.exec].currentStep = j.order
       /\ \A j \in jobs : \A k \in jobs' \ jobs :
             (boots' = boots /\ j.pc = "process" /\ k.exec = j.exec)
                 => k.order = j.order + 1
       /\ boots' # boots =>
             \A k \in jobs' : k.pc = "sleep" /\ k.order = executions[k.exec].currentStep
      ]_vars

\* A step of order 1 is dispatched again after a crash that followed its
\* first dispatch: currentStep stays 1.
C37_Witness ==
    \E j \in jobs : \E i \in 1..Len(executions[j.exec].invoked) :
        /\ j.pc = "process" /\ j.order = 1
        /\ boots > 0
        /\ executions[j.exec].currentStep = 1
        /\ executions[j.exec].invoked[i].order = 1
        /\ executions[j.exec].invoked[i].boot < boots

\* The admission of task t fails on a database statement in this step.
FailsInTransaction(t) == tasks[t].result # "err" /\ tasks'[t].result = "err"

\* C38: when a statement of the admission transaction fails (begin, a
\* check's read, the insert or the commit), process_incoming_message
\* returns the error, the failing admission leaves the execution table as
\* it was (it writes no RUNNING and no FAILED row), it schedules no step,
\* and it releases the lock before it returns.
C38_DbFailureLeavesNothing ==
    [][\A t \in TaskIds :
          /\ FailsInTransaction(t) =>
                /\ tasks[t].acquired /\ ~tasks[t].released
                /\ executions' = executions
                /\ jobs' = jobs
                /\ tasks'[t].pc = "release"
          /\ (tasks'[t].result = "err" /\ tasks'[t].pc = "done") =>
                /\ tasks'[t].released
                /\ tasks'[t].execId = 0
                /\ ~tasks'[t].scheduled
                /\ \A x \in 1..Len(executions') : executions'[x].task # t
                /\ \A j \in jobs' : executions'[j.exec].task # t
                /\ tasks[t].pc = "release" => lock'[KeyOf(t)] = -1
      ]_vars

\* An admission that failed on a database statement has returned, its
\* lock key deleted.
C38_Witness ==
    \E t \in TaskIds :
        /\ tasks[t].result = "err" /\ Finished(t)
        /\ tasks[t].acquired /\ tasks[t].released
        /\ lock[KeyOf(t)] = -1
        /\ RowsBy(t) = {}

====
